---------------------------- MODULE Spec2Model ----------------------------
(***************************************************************************)
(* A model of the flipnote.js decode core: the format dispatcher, the      *)
(* format B (KWZ) bit cursor, section map and frame offset tables, the     *)
(* format A (PPM) frame offset table, both ADPCM decoders and both frame   *)
(* decoders.  Each component has its own specification over the shared     *)
(* variables; the components it does not use stay idle.                    *)
(***************************************************************************)
EXTENDS Integers, Sequences, FiniteSets, TLC

VARIABLES
  \* parseSource (format dispatcher)
  arrayBuffer,      \* the loaded buffer, a sequence of bytes
  parser,           \* "none" | "PpmParser" | "KwzParser" | "rejected"
  \* KwzParser bit cursor
  bitStream,        \* the bytes under the cursor
  pointer,          \* DataStream.pointer into bitStream
  bitIndex,         \* KwzParser.bitIndex
  bitValue,         \* KwzParser.bitValue
  bitLog,           \* history: [sum, acc, maxNum] of the readBits calls since the reset
  \* decodeAudioTrack (both ADPCM decoders; the locals of the running call)
  adpcmKind,        \* "ppm" | "kwz": whose decodeAudioTrack is running ("idle": none)
  predictor,
  stepIndex,
  currByte,         \* ppm: src[srcPtr]; kwz: currByte
  currBit,          \* kwz: currBit (8: the next byte is due); ppm: 0 for lowNibble, 4 otherwise
  srcPtr,           \* ppm: srcPtr; kwz: adpcmPtr (bytes taken so far)
  output,           \* the samples written so far: [count, last], last as the Int16Array holds it
  byteCodes,        \* history: the codes taken from the current byte, [width, stepIndex, currBit]
  \* KwzParser.buildSectionMap
  byteLength,       \* DataStream.byteLength of the format B file
  sectionMap,       \* magic -> [ptr, length]
  sectionCount,
  ptr,
  buildState,       \* "idle" | "scanning" | "built" | "failed" (the assert threw)
  \* KwzParser.getFrameOffsets
  numFrames,        \* this.frameCount, read from the KFH section by decodeMeta
  frameMetaOffsets, \* this.frameMetaOffsets
  frameDataOffsets, \* this.frameDataOffsets
  frameLayerSizes,  \* this.frameLayerSizes
  offsetsLocal,     \* the locals: the three tables being filled, frameIndex, frameMetaPtr, frameDataPtr
  offsetsState,     \* "idle" | "start" | "loop" | "done" | "failed" (an assert or a read threw)
  \* PpmParser.decodeAnimationHeader
  frameCount,       \* this.frameCount
  frameOffsets,     \* this.frameOffsets
  animLocal,        \* the locals: offsetTableLength, n, the table being filled
  animState,        \* "idle" | "start" | "loop" | "done" | "failed" (an assert or a read threw)
  seekTo,           \* the frame index and the offset of the last seek of decodeFrame
  \* PpmParser.decodeFrame and KwzParser.decodeFrame
  format,           \* "none" | "PPM" | "KWZ": the decoder parseSource has built
  frames,           \* the frames of the file
  layerBuffers,     \* PpmParser: this.layerBuffers
  prevLayerBuffers, \* PpmParser: this.prevLayerBuffers
  prevDecodedFrame, \* PpmParser: this.prevDecodedFrame
  layers,           \* KwzParser: this.layers
  prevFrameIndex,   \* KwzParser: this.prevFrameIndex
  lastCalls,        \* the frame indices of the last two decodeFrame calls
  inOrder,          \* n when the calls so far are decodeFrame(0..n-1) in order, else -1
  threw,            \* whether the last call ended in an exception
  visits,           \* the frames whose data the last call decoded, in order
  \* getAudioMasterPcm
  mixKind,          \* "idle" | "PPM" | "KWZ": whose pcmAudioMix runs
  master,           \* the master buffer
  mixLog,           \* the clips mixed in so far, each with its sample offset
  \* getAudioTrackPcm
  pcmSrc,           \* the decoded track
  pcmFreqs,         \* source and target sample rate
  pcmDst,           \* the track handed back
  pcmState,         \* "idle" | "ready" | "done"
  \* pcmGetClippingRatio
  clipSrc,          \* the buffer measured
  audioClipRatio,   \* the quotient returned, [num, den]
  clipState,        \* "idle" | "ready" | "done"
  \* PpmParser.getFramePixels
  pixFrame,         \* the frame of the file, line by line
  pixBefore,        \* the decoder before the call
  pixLayers,        \* this.layerBuffers after the call
  pixPalette,       \* the palette indices of the frame
  image,            \* the pixels returned
  pixState,         \* "idle" | "ready" | "done"
  \* DataStream
  streamLength,     \* this.data.byteLength
  streamPointer,    \* this.pointer
  streamThrew,      \* the last operation raised a RangeError
  streamOps,        \* operations so far
  \* Player event API
  events,           \* this.events: event type -> callback list
  registered,       \* per event type, the callbacks added by on and not taken off since
  removed,          \* per event type, the registered callbacks taken off and not added since
  emitted,          \* the event type of the last emit, "none" before the first
  invoked,          \* the callbacks the last emit invoked
  eventOps,         \* calls so far
  \* the tile loops of KwzParser.decodeFrame
  tileCodes,        \* the tile codes of the layers of the frame
  tileLayer,        \* the layers decoded so far
  tileBuffer,       \* the pixel buffer of the last layer decoded
  tileLog,          \* the turns of the tile loops for that layer
  tilePending,      \* skipTileCounter at the end of that layer
  tileDsi,          \* settings.dsiLibraryNote
  kpDecoded,        \* the layers decodeFrame gives for the frame
  kpDepths,         \* the depth bytes of the frame
  kpPalette,        \* getFramePaletteIndices of the frame
  kpDsi,            \* settings.dsiLibraryNote
  kpCached,         \* prevFrameIndex === frameIndex
  kpLayers,         \* this.layers
  kpImage,          \* the image returned
  kpState,
  rawSpeeds,        \* the two speed bytes of the sound header
  soundPtrInside,   \* the header starts inside the file
  frameSpeed,
  bgmSpeed,
  framerate,        \* in halves of a frame per second
  bgmrate,
  soundState,
  masterNote,       \* the note: format, frames, rates, tracks and flags
  masterFreq,       \* dstFreq of the call
  masterPcm,        \* the buffer returned
  masterClipRatio,  \* this.audioClipRatio
  masterState

sniffVars == <<arrayBuffer, parser>>
bitVars   == <<bitStream, pointer, bitIndex, bitValue, bitLog>>
adpcmVars == <<adpcmKind, predictor, stepIndex, currByte, currBit, srcPtr, output, byteCodes>>
scanVars  == <<byteLength, sectionMap, sectionCount, ptr, buildState>>
offVars   == <<numFrames, frameMetaOffsets, frameDataOffsets, frameLayerSizes, offsetsLocal, offsetsState>>
animVars  == <<frameCount, frameOffsets, animLocal, animState, seekTo>>
decVars   == <<format, frames, layerBuffers, prevLayerBuffers, prevDecodedFrame, layers, prevFrameIndex, lastCalls, inOrder, threw,
               visits>>
mixVars   == <<mixKind, master, mixLog>>
pcmVars   == <<pcmSrc, pcmFreqs, pcmDst, pcmState>>
clipVars  == <<clipSrc, audioClipRatio, clipState>>
pixVars   == <<pixFrame, pixBefore, pixLayers, pixPalette, image, pixState>>
streamVars == <<streamLength, streamPointer, streamThrew, streamOps>>
eventVars == <<events, registered, removed, emitted, invoked, eventOps>>
tileVars  == <<tileCodes, tileLayer, tileBuffer, tileLog, tilePending, tileDsi>>
kpixVars  == <<kpDecoded, kpDepths, kpPalette, kpDsi, kpCached, kpLayers, kpImage, kpState>>
soundVars == <<rawSpeeds, soundPtrInside, frameSpeed, bgmSpeed, framerate, bgmrate, soundState>>
masterVars == <<masterNote, masterFreq, masterPcm, masterClipRatio, masterState>>
vars      == <<sniffVars, bitVars, adpcmVars, scanVars, offVars, animVars, decVars, mixVars, pcmVars, clipVars, pixVars, streamVars, eventVars, tileVars, kpixVars, soundVars, masterVars>>

\* what an action of one component leaves alone
sniffRest == <<bitVars, adpcmVars, scanVars, offVars, animVars, decVars, mixVars, pcmVars, clipVars, pixVars, streamVars, eventVars, tileVars, kpixVars, soundVars, masterVars>>
bitRest   == <<sniffVars, adpcmVars, scanVars, offVars, animVars, decVars, mixVars, pcmVars, clipVars, pixVars, streamVars, eventVars, tileVars, kpixVars, soundVars, masterVars>>
adpcmRest == <<sniffVars, bitVars, scanVars, offVars, animVars, decVars, mixVars, pcmVars, clipVars, pixVars, streamVars, eventVars, tileVars, kpixVars, soundVars, masterVars>>
scanRest  == <<sniffVars, bitVars, adpcmVars, offVars, animVars, decVars, mixVars, pcmVars, clipVars, pixVars, streamVars, eventVars, tileVars, kpixVars, soundVars, masterVars>>
offRest   == <<sniffVars, bitVars, adpcmVars, scanVars, animVars, decVars, mixVars, pcmVars, clipVars, pixVars, streamVars, eventVars, tileVars, kpixVars, soundVars, masterVars>>
animRest  == <<sniffVars, bitVars, adpcmVars, scanVars, offVars, decVars, mixVars, pcmVars, clipVars, pixVars, streamVars, eventVars, tileVars, kpixVars, soundVars, masterVars>>
decRest   == <<sniffVars, bitVars, adpcmVars, scanVars, offVars, animVars, mixVars, pcmVars, clipVars, pixVars, streamVars, eventVars, tileVars, kpixVars, soundVars, masterVars>>
mixRest   == <<sniffVars, bitVars, adpcmVars, scanVars, offVars, animVars, decVars, pcmVars, clipVars, pixVars, streamVars, eventVars, tileVars, kpixVars, soundVars, masterVars>>
pcmRest   == <<sniffVars, bitVars, adpcmVars, scanVars, offVars, animVars, decVars, mixVars, clipVars, pixVars, streamVars, eventVars, tileVars, kpixVars, soundVars, masterVars>>
clipRest  == <<sniffVars, bitVars, adpcmVars, scanVars, offVars, animVars, decVars, mixVars, pcmVars, pixVars, streamVars, eventVars, tileVars, kpixVars, soundVars, masterVars>>
pixRest   == <<sniffVars, bitVars, adpcmVars, scanVars, offVars, animVars, decVars, mixVars, pcmVars, clipVars, streamVars, eventVars, tileVars, kpixVars, soundVars, masterVars>>
streamRest == <<sniffVars, bitVars, adpcmVars, scanVars, offVars, animVars, decVars, mixVars, pcmVars, clipVars, pixVars, eventVars, tileVars, kpixVars, soundVars, masterVars>>
eventRest == <<sniffVars, bitVars, adpcmVars, scanVars, offVars, animVars, decVars, mixVars, pcmVars, clipVars, pixVars, streamVars, tileVars, kpixVars, soundVars, masterVars>>
tileRest  == <<sniffVars, bitVars, adpcmVars, scanVars, offVars, animVars, decVars, mixVars, pcmVars, clipVars, pixVars, streamVars, eventVars, kpixVars, soundVars, masterVars>>
kpixRest  == <<sniffVars, bitVars, adpcmVars, scanVars, offVars, animVars, decVars, mixVars, pcmVars, clipVars, pixVars, streamVars, eventVars, tileVars, soundVars, masterVars>>
soundRest == <<sniffVars, bitVars, adpcmVars, scanVars, offVars, animVars, decVars, mixVars, pcmVars, clipVars, pixVars, streamVars, eventVars, tileVars, kpixVars, masterVars>>
masterRest == <<sniffVars, bitVars, adpcmVars, scanVars, offVars, animVars, decVars, mixVars, pcmVars, clipVars, pixVars, streamVars, eventVars, tileVars, kpixVars, soundVars>>

-----------------------------------------------------------------------------
(* Arithmetic helpers: JavaScript's bit operators on non-negative integers *)

RECURSIVE Pow2(_)
Pow2(n) == IF n = 0 THEN 1 ELSE 2 * Pow2(n - 1)

RECURSIVE BitAnd(_, _)
BitAnd(a, b) ==
  IF a = 0 \/ b = 0 THEN 0
  ELSE (IF a % 2 = 1 /\ b % 2 = 1 THEN 1 ELSE 0) + 2 * BitAnd(a \div 2, b \div 2)

RECURSIVE BitOr(_, _)
BitOr(a, b) ==
  IF a = 0 THEN b
  ELSE IF b = 0 THEN a
  ELSE (IF a % 2 = 1 \/ b % 2 = 1 THEN 1 ELSE 0) + 2 * BitOr(a \div 2, b \div 2)

ShiftRight(a, n) == a \div Pow2(n)
ShiftLeft(a, n)  == a * Pow2(n)

-----------------------------------------------------------------------------
(* parseSource: the format-sniffing entry point                            *)

\* bytes the sniffed buffers are built from: the letters of both magics, 0 and 255
SniffBytes == {0, 65, 70, 72, 75, 80, 82, 255}
MaxSniffLen == 4

\* new Uint8Array(arrayBuffer.slice(0, 4)): an index past the end reads undefined,
\* which the shift operators take as 0
MagicByte(buf, i) == IF i <= Len(buf) THEN buf[i] ELSE 0

\* (b0 << 24) | (b1 << 16) | (b2 << 8) | b3, kept as its four bytes (a 32-bit pattern)
MagicOf(buf) == <<MagicByte(buf, 1), MagicByte(buf, 2), MagicByte(buf, 3), MagicByte(buf, 4)>>

\* 0x50415241, "PARA"
PpmMagic == <<80, 65, 82, 65>>
\* 0x4B464800, "KFH" and a zero byte
KwzMagic == <<75, 70, 72, 0>>

And32(a, b) == [i \in 1..4 |-> BitAnd(a[i], b[i])]

IsPpmMagic(magic) == magic = PpmMagic

\* a plausible slip: the fourth byte is not masked off
IsKwzMagicUnmasked(magic) == magic = KwzMagic

\* (magic & 0xFFFFFF00) === 0x4B464800
IsKwzMagic(magic) == And32(magic, <<255, 255, 255, 0>>) = KwzMagic

\* the buffers handed to parseSource
SniffBuffers == UNION {[1..n -> SniffBytes] : n \in 0..MaxSniffLen}

parseSource ==
  /\ parser = "none"
  /\ LET magic == MagicOf(arrayBuffer) IN
       parser' = IF IsPpmMagic(magic) THEN "PpmParser"
                 ELSE IF IsKwzMagic(magic) THEN "KwzParser"
                 ELSE "rejected"
  /\ UNCHANGED <<arrayBuffer, sniffRest>>


-----------------------------------------------------------------------------
(* KwzParser.readBits: the format B bit cursor                             *)

\* bytes the bit streams are built from
BitBytes == {60, 165}
MaxBitWords == 2
\* the widths readBits is called with
MaxReadWidth == 16

BitStreams == [1..(2 * MaxBitWords) -> BitBytes]

\* BITMASKS = new Uint16Array(16); BITMASKS[i] = (1 << i) - 1.  An index past
\* the table reads undefined, and (x & undefined) is 0.
BITMASKS_LENGTH == 16
\* a plausible slip: the mask is built without the "- 1"
BITMASKS_NoMinusOne(num) == IF num < BITMASKS_LENGTH THEN Pow2(num) ELSE 0
BITMASKS(num) == IF num < BITMASKS_LENGTH THEN Pow2(num) - 1 ELSE 0

\* DataStream.readUint16 (little-endian) at byte offset ptr of stream
readUint16(stream, at) == stream[at + 1] + 256 * stream[at + 2]
CanReadUint16(stream, at) == at + 2 <= Len(stream)

\* if (this.bitIndex + num > 16)
NeedsRefill(index, num) == index + num > 16

\* readBits(num) on cursor state [bitIndex, bitValue, pointer]; the result is
\* returned in the field result
readBits(stream, st, num) ==
  LET refill   == NeedsRefill(st.bitIndex, num)
      nextBits == readUint16(stream, st.pointer)
      value1   == IF refill
                  THEN BitOr(st.bitValue, ShiftLeft(nextBits, 16 - st.bitIndex))
                  ELSE st.bitValue
      index1   == IF refill THEN st.bitIndex - 16 ELSE st.bitIndex
  IN [bitIndex |-> index1 + num,
      bitValue |-> ShiftRight(value1, num),
      pointer  |-> IF refill THEN st.pointer + 2 ELSE st.pointer,
      result   |-> BitAnd(value1, BITMASKS(num))]

\* the num low bits of value, least significant first
RECURSIVE BitsOf(_, _)
BitsOf(value, num) ==
  IF num = 0 THEN <<>> ELSE <<value % 2>> \o BitsOf(value \div 2, num - 1)

\* one readBits call; a refill past the end of the buffer throws inside
\* readUint16 before the cursor changes, so the call is then no step
ReadBits ==
  \E num \in 1..MaxReadWidth :
    /\ NeedsRefill(bitIndex, num) => CanReadUint16(bitStream, pointer)
    /\ LET r == readBits(bitStream,
                         [bitIndex |-> bitIndex, bitValue |-> bitValue, pointer |-> pointer],
                         num)
       IN /\ bitIndex' = r.bitIndex
          /\ bitValue' = r.bitValue
          /\ pointer' = r.pointer
          /\ bitLog' = [sum    |-> bitLog.sum + num,
                        acc    |-> bitLog.acc \o BitsOf(r.result, num),
                        maxNum |-> IF num > bitLog.maxNum THEN num ELSE bitLog.maxNum]
    /\ UNCHANGED <<bitStream, bitRest>>

-----------------------------------------------------------------------------
(* decodeAudioTrack: the two ADPCM decoders                                *)

\* bytes the audio tracks are built from
AdpcmBytes == {0, 85, 119, 255}
MaxAdpcmBytes == 6

ADPCM_INDEX_TABLE_2BIT == <<-1, 2, -1, 2>>
ADPCM_INDEX_TABLE_4BIT == <<-1, -1, -1, -1, 2, 4, 6, 8, -1, -1, -1, -1, 2, 4, 6, 8>>
ADPCM_STEP_TABLE ==
  <<7, 8, 9, 10, 11, 12, 13, 14, 16, 17,
    19, 21, 23, 25, 28, 31, 34, 37, 41, 45,
    50, 55, 60, 66, 73, 80, 88, 97, 107, 118,
    130, 143, 157, 173, 190, 209, 230, 253, 279, 307,
    337, 371, 408, 449, 494, 544, 598, 658, 724, 796,
    876, 963, 1060, 1166, 1282, 1411, 1552, 1707, 1878, 2066,
    2272, 2499, 2749, 3024, 3327, 3660, 4026, 4428, 4871, 5358,
    5894, 6484, 7132, 7845, 8630, 9493, 10442, 11487, 12635, 13899,
    15289, 16818, 18500, 20350, 22385, 24623, 27086, 29794, 32767, 0>>

\* a plausible slip: the upper bound is not applied
clampLowOnly(n, l, h) == IF n < l THEN l ELSE n

clamp(n, l, h) == IF n < l THEN l ELSE IF n > h THEN h ELSE n

\* a store into an Int16Array wraps modulo 2^16
ToInt16(x) == ((x + 32768) % 65536) - 32768

HasBit(sample, mask) == BitAnd(sample, mask) # 0

\* the 4-bit difference, shared by both decoders
Diff4(sample, step) ==
  LET d == ShiftRight(step, 3)
           + (IF HasBit(sample, 1) THEN ShiftRight(step, 2) ELSE 0)
           + (IF HasBit(sample, 2) THEN ShiftRight(step, 1) ELSE 0)
           + (IF HasBit(sample, 4) THEN step ELSE 0)
  IN IF HasBit(sample, 8) THEN -d ELSE d

\* the 2-bit difference of the format B decoder
Diff2(sample, step) ==
  LET d == ShiftRight(step, 3) + (IF HasBit(sample, 1) THEN step ELSE 0)
  IN IF HasBit(sample, 2) THEN -d ELSE d

\* PpmParser.decodeAudioTrack: one turn of the while loop.  The low nibble of
\* a byte is decoded first, then the high nibble, which advances srcPtr.
PpmAdpcmStep ==
  /\ adpcmKind = "ppm"
  /\ srcPtr < MaxAdpcmBytes
  /\ \E byte \in (IF currBit = 0 THEN AdpcmBytes ELSE {currByte}) :
       LET lowNibble == currBit = 0
           sample == IF lowNibble THEN BitAnd(byte, 15) ELSE ShiftRight(byte, 4)
           step   == ADPCM_STEP_TABLE[stepIndex + 1]
           pred1  == clamp(predictor + Diff4(sample, step), -32768, 32767)
       IN /\ currByte' = byte
          /\ currBit' = IF lowNibble THEN 4 ELSE 0
          /\ srcPtr' = IF lowNibble THEN srcPtr ELSE srcPtr + 1
          /\ predictor' = pred1
          /\ stepIndex' = clamp(stepIndex + ADPCM_INDEX_TABLE_4BIT[sample + 1], 0, 88)
          /\ output' = [count |-> output.count + 1, last |-> ToInt16(pred1)]
          /\ byteCodes' = (IF lowNibble THEN <<>> ELSE byteCodes)
                            \o <<[width |-> 4, stepIndex |-> stepIndex, currBit |-> currBit]>>
  /\ UNCHANGED <<adpcmKind, adpcmRest>>

\* a plausible slip: the place in the byte is not consulted
TwoBitCodeByStep(index, bit) == index < 18

\* if (stepIndex < 18 || currBit > 4): a 2 bit sample
TwoBitCode(index, bit) == index < 18 \/ bit > 4

\* KwzParser.decodeAudioTrack: one turn of the inner while loop; with currBit
\* at 8 the for loop first takes the next byte.
KwzAdpcmStep ==
  /\ adpcmKind = "kwz"
  /\ currBit = 8 => srcPtr < MaxAdpcmBytes
  /\ \E byte \in (IF currBit = 8 THEN AdpcmBytes ELSE {currByte}) :
       LET bit    == IF currBit = 8 THEN 0 ELSE currBit
           twoBit == TwoBitCode(stepIndex, bit)
           sample == IF twoBit THEN BitAnd(byte, 3) ELSE BitAnd(byte, 15)
           step   == ADPCM_STEP_TABLE[stepIndex + 1]
           diff   == IF twoBit THEN Diff2(sample, step) ELSE Diff4(sample, step)
           index1 == stepIndex + (IF twoBit THEN ADPCM_INDEX_TABLE_2BIT[sample + 1]
                                            ELSE ADPCM_INDEX_TABLE_4BIT[sample + 1])
           pred1  == clamp(predictor + diff, -2048, 2047)
       IN /\ currByte' = ShiftRight(byte, IF twoBit THEN 2 ELSE 4)
          /\ currBit' = bit + (IF twoBit THEN 2 ELSE 4)
          /\ srcPtr' = IF currBit = 8 THEN srcPtr + 1 ELSE srcPtr
          /\ stepIndex' = clamp(index1, 0, 79)
          /\ predictor' = pred1
          /\ output' = [count |-> output.count + 1, last |-> ToInt16(pred1 * 16)]
          /\ byteCodes' = (IF currBit = 8 THEN <<>> ELSE byteCodes)
                            \o <<[width |-> IF twoBit THEN 2 ELSE 4,
                                   stepIndex |-> stepIndex, currBit |-> bit]>>
  /\ UNCHANGED <<adpcmKind, adpcmRest>>

\* the locals as decodeAudioTrack sets them before its loop: stepIndex is 0
\* (format A), 40 or, with settings.cleanerAudio, 0 (format B)
AdpcmStart ==
  {[kind |-> "ppm", stepIndex |-> 0, currBit |-> 0],
   [kind |-> "kwz", stepIndex |-> 40, currBit |-> 8],
   [kind |-> "kwz", stepIndex |-> 0, currBit |-> 8]}

-----------------------------------------------------------------------------
(* KwzParser.buildSectionMap                                               *)

\* const fileSize = this.byteLength - 256
KwzTailSize == 256
\* (sectionCount < 6)
MaxSections == 6

\* file sizes: shorter than the tail, room for one record, room for eight
ScanByteLengths == {100, 264, 320}
\* the length fields read: an empty payload, one 28-byte record
ScanLengths == {0, 28}
\* the tags read: the two required ones, or a tag no other record carries
\* (named by the record's place in the scan)
ScanOtherTags == <<"ICO", "KFH", "KSN", "KTN", "X05", "X06", "X07", "X08">>
ScanMagics(count) == {"KMC", "KMI", ScanOtherTags[count + 1]}

\* a plausible slip: the section counter is not part of the loop condition
ScanGuardUncounted(p, count, size) == p < size - KwzTailSize

\* while ((ptr < fileSize) && (sectionCount < 6))
ScanGuard(p, count, size) == p < size - KwzTailSize /\ count < MaxSections

\* sectionMap.set(magic, { ptr, length })
MapSet(map, magic, entry) == (magic :> entry) @@ map

\* one turn of the while loop; magic and length are what the file holds at ptr
ScanSection ==
  /\ buildState = "scanning"
  /\ ScanGuard(ptr, sectionCount, byteLength)
  /\ \E magic \in ScanMagics(sectionCount), length \in ScanLengths :
       /\ sectionMap' = MapSet(sectionMap, magic, [ptr |-> ptr, length |-> length])
       /\ ptr' = ptr + length + 8
       /\ sectionCount' = sectionCount + 1
  /\ UNCHANGED <<byteLength, buildState, scanRest>>

\* the loop is over: assert(sectionMap.has('KMC') && sectionMap.has('KMI'))
ScanFinish ==
  /\ buildState = "scanning"
  /\ ~ ScanGuard(ptr, sectionCount, byteLength)
  /\ buildState' = IF "KMC" \in DOMAIN sectionMap /\ "KMI" \in DOMAIN sectionMap
                   THEN "built" ELSE "failed"
  /\ UNCHANGED <<byteLength, sectionMap, sectionCount, ptr, scanRest>>

-----------------------------------------------------------------------------
(* KwzParser.getFrameOffsets                                               *)

MaxOffsetFrames == 3
\* file sizes, KMI section lengths (one, two and a half, three records) and
\* layer sizes (the "nothing to decode" size and a larger one) of the files
OffsetByteLengths == {300, 600}
OffsetKmiLengths == {28, 70, 84}
OffsetLayerSizes == {38, 100}

\* the section maps buildSectionMap can have left: KMI first, KMC after it,
\* every ptr below byteLength - 256
OffsetSectionMaps(size) ==
  { [m \in {"KMI", "KMC"} |->
       IF m = "KMI" THEN [ptr |-> 0, length |-> len] ELSE [ptr |-> len + 8, length |-> 0]] :
    len \in {l \in OffsetKmiLengths : l + 8 < size - KwzTailSize} }

\* new Uint32Array(n)
ZeroArray(n) == [k \in 1..n |-> 0]

\* a plausible slip: only the metadata pointer is validated
PointersInBoundsMetaOnly(metaPtr, dataPtr, size) == metaPtr < size

\* assert(frameMetaPtr < this.byteLength); assert(frameDataPtr < this.byteLength)
PointersInBounds(metaPtr, dataPtr, size) == metaPtr < size /\ dataPtr < size

\* the two asserts ahead of the loop, then the locals
OffsetsStart ==
  /\ offsetsState = "start"
  /\ IF /\ {"KMI", "KMC"} \subseteq DOMAIN sectionMap
        /\ sectionMap["KMI"].length >= 28 * numFrames    \* length / 28 >= numFrames
     THEN /\ offsetsState' = "loop"
          /\ offsetsLocal' = [meta |-> ZeroArray(numFrames), data |-> ZeroArray(numFrames),
                              sizes |-> <<>>, frameIndex |-> 0,
                              frameMetaPtr |-> sectionMap["KMI"].ptr + 8,
                              frameDataPtr |-> sectionMap["KMC"].ptr + 12]
     ELSE /\ offsetsState' = "failed"
          /\ UNCHANGED offsetsLocal
  /\ UNCHANGED <<numFrames, frameMetaOffsets, frameDataOffsets, frameLayerSizes, offRest>>

\* one turn of the for loop; the three sizes are what the file holds at
\* frameMetaPtr + 4.  The Uint32Array stores keep the values: they are pointers
\* that an earlier turn (or the section scan) has bounded by byteLength.
OffsetsStep ==
  /\ offsetsState = "loop"
  /\ offsetsLocal.frameIndex < numFrames
  /\ \E layerASize \in OffsetLayerSizes, layerBSize \in OffsetLayerSizes, layerCSize \in OffsetLayerSizes :
       LET l == offsetsLocal
           k == l.frameIndex + 1
           metaPtr == l.frameMetaPtr + 28
           dataPtr == l.frameDataPtr + layerASize + layerBSize + layerCSize
           stored == [l EXCEPT !.meta[k] = l.frameMetaPtr, !.data[k] = l.frameDataPtr,
                               !.frameMetaPtr = metaPtr, !.frameDataPtr = dataPtr]
       IN IF l.frameMetaPtr + 10 > byteLength      \* the reads run off the buffer
          THEN /\ offsetsState' = "failed"
               /\ UNCHANGED offsetsLocal
          ELSE IF PointersInBounds(metaPtr, dataPtr, byteLength)
          THEN /\ offsetsLocal' = [stored EXCEPT !.sizes = Append(@, <<layerASize, layerBSize, layerCSize>>),
                                                 !.frameIndex = @ + 1]
               /\ UNCHANGED offsetsState
          ELSE /\ offsetsLocal' = stored
               /\ offsetsState' = "failed"
  /\ UNCHANGED <<numFrames, frameMetaOffsets, frameDataOffsets, frameLayerSizes, offRest>>

\* the loop is over: the tables become the decoder's
OffsetsFinish ==
  /\ offsetsState = "loop"
  /\ offsetsLocal.frameIndex >= numFrames
  /\ frameMetaOffsets' = offsetsLocal.meta
  /\ frameDataOffsets' = offsetsLocal.data
  /\ frameLayerSizes' = offsetsLocal.sizes
  /\ offsetsState' = "done"
  /\ UNCHANGED <<numFrames, offsetsLocal, offRest>>

-----------------------------------------------------------------------------
(* PpmParser.decodeAnimationHeader and the seek that opens decodeFrame      *)

MaxFrames == 3
\* this.seek(0x06A0); this.seek(0x06A8)
AnimHeaderOffset == 1696
OffsetTableStart == 1704
\* what this.frameOffsets[i] gives for an index the table does not have
Undefined == -1

\* file sizes (one too short for the animation header), offset table lengths
\* and relative frame offsets of the files
AnimByteLengths == {100, 1800, 4000}
AnimTableLengths == {0, 4, 6, 8, 12, 16}
AnimRelativeOffsets == {0, 80, 3000}

\* numOffsets = offsetTableLength / 4; assert(numOffsets <= this.frameCount)
NumOffsetsAllowed(offsetTableLength, count) == offsetTableLength <= 4 * count

\* new Uint32Array(numOffsets): the length is numOffsets with its fraction dropped
Uint32ArrayOf(offsetTableLength) == [k \in 1..(offsetTableLength \div 4) |-> 0]

\* frameOffsets[n] = ptr: a store past the end of a typed array is dropped
TypedStore(array, n, value) ==
  IF n + 1 \in DOMAIN array THEN [array EXCEPT ![n + 1] = value] ELSE array

\* this.frameOffsets[frameIndex]
FrameOffsetAt(table, frameIndex) ==
  IF frameIndex + 1 \in DOMAIN table THEN table[frameIndex + 1] ELSE Undefined

\* seek(0x06A0), readUint16 and the assert; the length is what the file holds
decodeAnimationHeader ==
  /\ animState = "start"
  /\ \E offsetTableLength \in AnimTableLengths :
       IF /\ AnimHeaderOffset + 2 <= byteLength          \* else the read runs off the buffer
          /\ NumOffsetsAllowed(offsetTableLength, frameCount)
       THEN /\ animState' = "loop"
            /\ animLocal' = [offsetTableLength |-> offsetTableLength, n |-> 0,
                            frameOffsets |-> Uint32ArrayOf(offsetTableLength)]
       ELSE /\ animState' = "failed"
            /\ UNCHANGED animLocal
  /\ UNCHANGED <<byteLength, frameCount, frameOffsets, seekTo, animRest>>

\* one turn of the for loop; the relative offset is what the file holds
AnimReadOffset ==
  /\ animState = "loop"
  /\ 4 * animLocal.n < animLocal.offsetTableLength       \* n < numOffsets
  /\ \E relative \in AnimRelativeOffsets :
       LET at == OffsetTableStart + animLocal.offsetTableLength + relative
       IN IF /\ OffsetTableStart + 4 * animLocal.n + 4 <= byteLength
             /\ at < byteLength                           \* assert(ptr < this.byteLength)
          THEN /\ animLocal' = [animLocal EXCEPT
                                 !.frameOffsets = TypedStore(@, animLocal.n, at),
                                 !.n = @ + 1]
               /\ UNCHANGED animState
          ELSE /\ animState' = "failed"
               /\ UNCHANGED animLocal
  /\ UNCHANGED <<byteLength, frameCount, frameOffsets, seekTo, animRest>>

\* this.frameOffsets = frameOffsets
AnimFinish ==
  /\ animState = "loop"
  /\ 4 * animLocal.n >= animLocal.offsetTableLength
  /\ frameOffsets' = animLocal.frameOffsets
  /\ animState' = "done"
  /\ UNCHANGED <<byteLength, frameCount, animLocal, seekTo, animRest>>

\* decodeFrame(frameIndex) with a valid index: this.seek(this.frameOffsets[frameIndex])
SeekFrame ==
  /\ animState = "done"
  /\ \E frameIndex \in 0..(frameCount - 1) :
       seekTo' = [frameIndex |-> frameIndex, offset |-> FrameOffsetAt(frameOffsets, frameIndex)]
  /\ UNCHANGED <<byteLength, frameCount, frameOffsets, animLocal, animState, animRest>>

-----------------------------------------------------------------------------
(* PpmParser.decodeFrame                                                   *)

\* the longest file, and the canvas (256 x 192 in the source) scaled down
MaxFileFrames == 3
PpmWidth == 2
PpmHeight == 2
\* this.prevDecodedFrame = null; also "no call yet" in lastCalls
Null == -9

\* a layer bitmap, one element per pixel, row after row
Bitmap(shape) ==
  [p \in 1..(PpmWidth * PpmHeight) |->
     LET x == (p - 1) % PpmWidth
         y == (p - 1) \div PpmWidth
     IN IF \/ shape = "full"
           \/ shape = "diag" /\ x = y
           \/ shape = "top" /\ y = 0
           \/ shape = "left" /\ x = 0
           \/ shape = "dot" /\ x = PpmWidth - 1 /\ y = PpmHeight - 1
        THEN 1 ELSE 0]

\* new Uint8Array(width * height)
BlankBitmap == Bitmap("blank")

\* A frame as the file holds it: the two flags of its header byte, the
\* translation, and the bitmaps its line data unpacks to.  The unpacking starts
\* from zeroed buffers, so its result depends on the file alone.  The data of a
\* truncated frame runs past the end of the file: a read of the unpacking loops
\* raises a RangeError, and decoded holds what was unpacked until then.
PpmFrame(isNew, tx, ty, shape1, shape2) ==
  [isNewFrame |-> isNew, translateX |-> tx, translateY |-> ty,
   decoded |-> <<Bitmap(shape1), Bitmap(shape2)>>, truncated |-> FALSE]

PpmFrameSample ==
  { PpmFrame(1, 0, 0, "diag", "blank"),
    PpmFrame(1, 1, 1, "left", "full"),
    PpmFrame(0, 0, 0, "top", "dot"),
    PpmFrame(0, 1, 0, "dot", "left"),
    PpmFrame(0, 0, -1, "left", "diag"),
    PpmFrame(0, -1, 1, "diag", "top"),
    [PpmFrame(0, 0, 0, "top", "blank") EXCEPT !.truncated = TRUE] }

RECURSIVE FilesOver(_, _)
FilesOver(sample, n) ==
  IF n = 0 THEN {<<>>}
  ELSE LET shorter == FilesOver(sample, n - 1)
       IN shorter \cup {Append(f, x) : f \in {g \in shorter : Len(g) = n - 1}, x \in sample}

PpmFiles == FilesOver(PpmFrameSample, MaxFileFrames) \ {<<>>}

\* the frame decodeFrame reads for frameIndex; an index the offset table does
\* not have seeks to undefined and reads from the start of the file, where the
\* byte 'P' makes a translated frame that is not new
PpmFrameAt(file, frameIndex) ==
  IF frameIndex + 1 \in DOMAIN file THEN file[frameIndex + 1]
  ELSE PpmFrame(0, PpmWidth, PpmHeight, "full", "full")

\* isNewFrame(frameIndex)
isNewFrame(file, frameIndex) == PpmFrameAt(file, frameIndex).isNewFrame

\* assert(frameIndex > -1 && frameIndex < this.frameCount)
PpmIndexInBounds(frameIndex, count) == frameIndex > -1 /\ frameIndex < count

\* a plausible slip: the merge takes the pixel at the same place
XorPrevUnshifted(layer, layerPrev, translateX, translateY) ==
  [p \in 1..(PpmWidth * PpmHeight) |-> (layer[p] + layerPrev[p]) % 2]

\* the merge loop: layer[dest] ^= layerPrev[src] wherever the translated pixel
\* is on the canvas
XorPrev(layer, layerPrev, translateX, translateY) ==
  [p \in 1..(PpmWidth * PpmHeight) |->
     LET x == (p - 1) % PpmWidth
         y == (p - 1) \div PpmWidth
         src == p - (translateX + translateY * PpmWidth)
     IN IF /\ y - translateY >= 0 /\ y - translateY < PpmHeight
           /\ x - translateX >= 0 /\ x - translateX < PpmWidth
        THEN (layer[p] + layerPrev[src]) % 2
        ELSE layer[p]]

\* a plausible slip: the last decoded frame is not consulted
PpmNeedsPrevUncached(file, prev, frameIndex) ==
  isNewFrame(file, frameIndex) = 0 /\ frameIndex # 0

\* the condition under which decodeFrame first decodes frameIndex - 1
PpmNeedsPrev(file, prev, frameIndex) ==
  prev # frameIndex - 1 /\ isNewFrame(file, frameIndex) = 0 /\ frameIndex # 0

\* decodeFrame(frameIndex) on decoder state st; threw tells that the call ended
\* in an exception
RECURSIVE PpmDecodeFrame(_, _, _)
PpmDecodeFrame(file, st, frameIndex) ==
  IF ~ PpmIndexInBounds(frameIndex, Len(file)) THEN [st EXCEPT !.threw = TRUE]
  ELSE
    LET s1 == IF PpmNeedsPrev(file, st.prevDecodedFrame, frameIndex)
              THEN PpmDecodeFrame(file, st, frameIndex - 1) ELSE st
        frame == PpmFrameAt(file, frameIndex)
        merged == [l \in 1..2 |->
                     IF frame.isNewFrame = 0
                     THEN XorPrev(frame.decoded[l], s1.prevLayerBuffers[l],
                                  frame.translateX, frame.translateY)
                     ELSE frame.decoded[l]]
    IN IF s1.threw THEN s1
       \* this.prevDecodedFrame = frameIndex comes before the reads
       ELSE IF frame.truncated
       THEN [s1 EXCEPT !.layerBuffers = frame.decoded, !.prevDecodedFrame = frameIndex,
                       !.threw = TRUE]
       ELSE [layerBuffers |-> merged, prevLayerBuffers |-> merged,
             prevDecodedFrame |-> frameIndex, threw |-> FALSE,
             visits |-> Append(s1.visits, frameIndex)]

\* the decoder as the constructor leaves it
PpmFresh ==
  [layerBuffers |-> <<BlankBitmap, BlankBitmap>>, prevLayerBuffers |-> <<BlankBitmap, BlankBitmap>>,
   prevDecodedFrame |-> Null, threw |-> FALSE, visits |-> <<>>]

PpmState ==
  [layerBuffers |-> layerBuffers, prevLayerBuffers |-> prevLayerBuffers,
   prevDecodedFrame |-> prevDecodedFrame, threw |-> FALSE, visits |-> <<>>]

\* the bookkeeping of a call: the last two indices asked for, and how far the
\* calls so far are exactly decodeFrame(0), decodeFrame(1), ... (-1: they are not)
CallLog(frameIndex, failed) ==
  /\ lastCalls' = <<lastCalls[2], frameIndex>>
  /\ threw' = failed
  /\ inOrder' = IF ~ failed /\ inOrder = frameIndex THEN frameIndex + 1 ELSE -1

\* a caller asks the format A decoder for a frame, in or out of range
PpmDecode ==
  /\ format = "PPM"
  /\ \E frameIndex \in -1..frameCount :
       LET r == PpmDecodeFrame(frames, PpmState, frameIndex)
       IN /\ layerBuffers' = r.layerBuffers
          /\ prevLayerBuffers' = r.prevLayerBuffers
          /\ prevDecodedFrame' = r.prevDecodedFrame
          /\ visits' = r.visits
          /\ CallLog(frameIndex, r.threw)
  /\ UNCHANGED <<format, frames, layers, prevFrameIndex, decRest>>

-----------------------------------------------------------------------------
(* KwzParser.decodeFrame                                                   *)

\* the 8 x 8 tiles of a layer (1200 in the source) scaled down; a layer buffer
\* is held tile by tile, in the order the tile loops visit them, each tile as
\* the line pattern last written to it (0: the zeroes of a new Uint8Array)
KwzTiles == 2

\* One tile code of a layer's bit stream.  Types 0-4 and 7 each write all 64
\* pixels of the tile (arg: which pixels), type 5 leaves this tile and the next
\* arg tiles alone, type 6 matches no branch.
TileCode(tileType, arg) == [tileType |-> tileType, arg |-> arg]

\* layer data: a code for every tile; a first tile and then a skip over the
\* rest; a one-tile skip and then a code for every further tile; one long skip
FillCodes(p) == [k \in 1..KwzTiles |-> TileCode(0, p)]
HeadCodes(p) == <<TileCode(0, p), TileCode(5, 31)>>
TailCodes(p) == <<TileCode(5, 0)>> \o [k \in 1..(KwzTiles - 1) |-> TileCode(0, p)]
SkipCodes == <<TileCode(5, 31)>>

KwzLayer(size, codes) == [size |-> size, codes |-> codes]

\* a frame as the file holds it: the diffing flag of its KMI record, and the
\* three layers with their sizes from the same record
KwzFrame(flags, layerA, layerB, layerC) == [flags |-> flags, layers |-> <<layerA, layerB, layerC>>]

KwzFrameSample ==
  { KwzFrame(7, KwzLayer(100, FillCodes(1)), KwzLayer(100, FillCodes(1)), KwzLayer(100, FillCodes(1))),
    KwzFrame(0, KwzLayer(100, HeadCodes(2)), KwzLayer(38, SkipCodes), KwzLayer(100, SkipCodes)),
    KwzFrame(6, KwzLayer(100, TailCodes(2)), KwzLayer(100, FillCodes(2)), KwzLayer(100, FillCodes(1))),
    KwzFrame(0, KwzLayer(38, FillCodes(2)), KwzLayer(38, SkipCodes), KwzLayer(38, SkipCodes)),
    KwzFrame(7, KwzLayer(38, SkipCodes), KwzLayer(38, SkipCodes), KwzLayer(38, SkipCodes)),
    KwzFrame(1, KwzLayer(100, FillCodes(2)), KwzLayer(100, HeadCodes(1)), KwzLayer(38, SkipCodes)) }

KwzFiles == FilesOver(KwzFrameSample, MaxFileFrames) \ {<<>>}

\* getFrameDiffingFlag(frameIndex): (flags >> 4) & 0x07; an index the offset
\* table does not have seeks to undefined and reads the file's first bytes, "KFH."
getFrameDiffingFlag(file, frameIndex) ==
  IF frameIndex + 1 \in DOMAIN file THEN file[frameIndex + 1].flags ELSE 4

\* a plausible slip: only the lower end of the range is asserted
KwzIndexInBoundsLowOnly(frameIndex, count) == frameIndex > -1

\* assert(frameIndex > -1 && frameIndex < this.frameCount)
KwzIndexInBounds(frameIndex, count) == frameIndex > -1 /\ frameIndex < count

\* a plausible slip: the unchanged-layer size is taken to be 0
LayerUnchangedWhenEmpty(layerSize) == layerSize = 0

\* if (layerSize === 38) continue
LayerUnchanged(layerSize) == layerSize = 38

\* the tile loops of one layer, from tile slot on, with the next code to read
\* and the tile skip counter
RECURSIVE DecodeTiles(_, _, _, _, _)
DecodeTiles(pixelBuffer, codes, slot, next, skipTileCounter) ==
  IF slot > KwzTiles THEN pixelBuffer
  ELSE IF skipTileCounter > 0
  THEN DecodeTiles(pixelBuffer, codes, slot + 1, next, skipTileCounter - 1)
  ELSE LET code == codes[next]
       IN IF code.tileType = 5
          THEN DecodeTiles(pixelBuffer, codes, slot + 1, next + 1, code.arg)
          ELSE IF code.tileType = 6
          THEN DecodeTiles(pixelBuffer, codes, slot + 1, next + 1, 0)
          ELSE DecodeTiles([pixelBuffer EXCEPT ![slot] = code.arg], codes, slot + 1, next + 1, 0)

\* one turn of the layer loop
DecodeLayer(pixelBuffer, layer, diffingFlag, layerIndex) ==
  IF LayerUnchanged(layer.size) THEN pixelBuffer
  ELSE IF BitAnd(ShiftRight(diffingFlag, layerIndex), 1) = 0 THEN pixelBuffer
  ELSE DecodeTiles(pixelBuffer, layer.codes, 1, 1, 0)

\* a plausible slip: the last decoded frame is not consulted
KwzNeedsPrevUncached(prev, frameIndex) == frameIndex # 0

\* this.prevFrameIndex !== frameIndex - 1 && frameIndex !== 0
KwzNeedsPrev(prev, frameIndex) == prev # frameIndex - 1 /\ frameIndex # 0

\* a plausible slip: the complement is forgotten
NarrowFlagPlain(diffingFlag, nextFlag) == BitAnd(diffingFlag, nextFlag)

\* diffingFlag & ~getFrameDiffingFlag(frameIndex + 1), on three bits
NarrowFlag(diffingFlag, nextFlag) == BitAnd(diffingFlag, 7 - nextFlag)

\* decodeFrame(frameIndex, diffingFlag, isPrevFrame) on decoder state st
RECURSIVE KwzDecodeFrame(_, _, _, _, _)
KwzDecodeFrame(file, st, frameIndex, diffingFlag, isPrevFrame) ==
  IF ~ KwzIndexInBounds(frameIndex, Len(file)) THEN [st EXCEPT !.threw = TRUE]
  ELSE
    LET needsPrev == KwzNeedsPrev(st.prevFrameIndex, frameIndex)
        flag == IF needsPrev /\ isPrevFrame
                THEN NarrowFlag(diffingFlag, getFrameDiffingFlag(file, frameIndex + 1))
                ELSE diffingFlag
        s1 == IF needsPrev /\ flag # 0
              THEN KwzDecodeFrame(file, st, frameIndex - 1, flag, TRUE) ELSE st
    IN IF s1.threw THEN s1
       \* this.frameLayerSizes[frameIndex] is undefined: layerSizes[0] throws
       ELSE IF frameIndex + 1 \notin DOMAIN file THEN [s1 EXCEPT !.threw = TRUE]
       ELSE [layers |-> [l \in 1..3 |->
                           DecodeLayer(s1.layers[l], file[frameIndex + 1].layers[l], flag, l - 1)],
             prevFrameIndex |-> frameIndex, threw |-> FALSE,
             visits |-> Append(s1.visits, [frameIndex |-> frameIndex, diffingFlag |-> flag,
                                           isPrevFrame |-> isPrevFrame])]

\* the decoder as the constructor leaves it
KwzFresh ==
  [layers |-> [l \in 1..3 |-> [k \in 1..KwzTiles |-> 0]], prevFrameIndex |-> Null, threw |-> FALSE,
   visits |-> <<>>]

KwzState == [layers |-> layers, prevFrameIndex |-> prevFrameIndex, threw |-> FALSE, visits |-> <<>>]

\* a caller asks the format B decoder for a frame, in or out of range
KwzDecode ==
  /\ format = "KWZ"
  /\ \E frameIndex \in -1..frameCount :
       LET r == KwzDecodeFrame(frames, KwzState, frameIndex, 7, FALSE)
       IN /\ layers' = r.layers
          /\ prevFrameIndex' = r.prevFrameIndex
          /\ visits' = r.visits
          /\ CallLog(frameIndex, r.threw)
  /\ UNCHANGED <<format, frames, layerBuffers, prevLayerBuffers, prevDecodedFrame, decRest>>

\* what a caller reads through the value decodeFrame returned: the return
\* statement hands out the decoder's own array (this.layerBuffers, this.layers),
\* so the caller sees that array's current content
Returned == IF format = "PPM" THEN layerBuffers ELSE layers

-----------------------------------------------------------------------------
(* pcmAudioMix and the sound effect loop of getAudioMasterPcm               *)

\* the master buffer's length and the number of sound effect triggers
MixMasterLen == 3
MaxMixes == 2

\* decoded sound effect clips
MixClips == {<<1000, 1000>>, <<-3>>, <<32767, -32768>>, <<1, 32767, 5>>}

\* the Int16Array store of a value given as twice itself: the fraction is dropped
TruncHalf(twice) == IF twice >= 0 THEN twice \div 2 ELSE -((-twice) \div 2)

\* a plausible slip: format A adds the sample at full volume
PpmMixSampleFull(d, s) == ToInt16(clamp(d + s, -32768, 32767))

\* PpmParser: dst[dstOffset + n] = clamp(dst[dstOffset + n] + (src[n] / 2), -32768, 32767)
PpmMixSample(d, s) == ToInt16(TruncHalf(clamp(2 * d + s, -65536, 65534)))

\* KwzParser: dst[dstOffset + n] = clamp(dst[dstOffset + n] + src[n], -32768, 32767)
KwzMixSample(d, s) == ToInt16(clamp(d + s, -32768, 32767))

\* pcmAudioMix(src, dst, dstOffset) from loop index n on.  At dstOffset + n =
\* dstSize the read is undefined and the store is dropped.
RECURSIVE pcmAudioMix(_, _, _, _, _)
pcmAudioMix(kind, src, dst, dstOffset, n) ==
  IF n >= Len(src) THEN dst
  ELSE IF dstOffset + n > Len(dst) THEN dst
  ELSE IF dstOffset + n + 1 \notin DOMAIN dst THEN pcmAudioMix(kind, src, dst, dstOffset, n + 1)
  ELSE LET d == dst[dstOffset + n + 1]
           samp == IF kind = "PPM" THEN PpmMixSample(d, src[n + 1]) ELSE KwzMixSample(d, src[n + 1])
       IN pcmAudioMix(kind, src, TypedStore(dst, dstOffset + n, samp), dstOffset, n + 1)

\* a frame's sound effect flag is set: the clip is mixed in at the frame's
\* sample offset
MixEffect ==
  /\ mixKind # "idle"
  /\ Len(mixLog) < MaxMixes
  /\ \E src \in MixClips, seOffset \in 0..(MixMasterLen - 1) :
       /\ master' = pcmAudioMix(mixKind, src, master, seOffset, 0)
       /\ mixLog' = Append(mixLog, [src |-> src, seOffset |-> seOffset])
  /\ UNCHANGED <<mixKind, mixRest>>

-----------------------------------------------------------------------------
(* pcmResampleNearestNeighbour and getAudioTrackPcm                         *)

\* JavaScript numbers are binary floating point with 53 significant bits; the
\* model's numbers carry FloatBits significant bits and round the same way (to
\* nearest, ties to even).  A number is a fraction [num, den], not negative.
FloatBits == 5
MaxPcmLen == 3
PcmSamples == {7, -3}
ResampleFreqs == {2, 4, 11, 22}

\* scale num/den by powers of two into [2^(FloatBits-1), 2^FloatBits)
RECURSIVE FlNorm(_, _, _)
FlNorm(nn, dd, sh) ==
  IF nn >= dd * Pow2(FloatBits) THEN FlNorm(nn, 2 * dd, sh + 1)
  ELSE IF nn < dd * Pow2(FloatBits - 1) THEN FlNorm(2 * nn, dd, sh - 1)
  ELSE [nn |-> nn, dd |-> dd, sh |-> sh]

RoundHalfEven(nn, dd) ==
  LET m == nn \div dd
      twiceRest == 2 * (nn % dd)
  IN IF twiceRest > dd \/ (twiceRest = dd /\ m % 2 = 1) THEN m + 1 ELSE m

\* the floating point number nearest to x
Fl(x) ==
  IF x.num = 0 THEN [num |-> 0, den |-> 1]
  ELSE LET n == FlNorm(x.num, x.den, 0)
           m == RoundHalfEven(n.nn, n.dd)
       IN IF n.sh >= 0 THEN [num |-> m * Pow2(n.sh), den |-> 1]
          ELSE [num |-> m, den |-> Pow2(0 - n.sh)]

\* a / b and x * k as the machine computes them
FlDiv(a, b) == Fl([num |-> a, den |-> b])
FlMul(x, k) == Fl([num |-> x.num * k, den |-> x.den])
\* Math.floor, and the length a typed array takes from a fractional number
Floor(x) == x.num \div x.den

\* pcmGetSample(src, srcSize, srcPtr)
pcmGetSample(src, srcSize, at) == IF at < 0 \/ at >= srcSize THEN 0 ELSE src[at + 1]

\* pcmResampleNearestNeighbour(src, srcFreq, dstFreq); the turns of the loop
\* with dstPtr at or past dst.length store nothing
pcmResampleNearestNeighbour(src, srcFreq, dstFreq) ==
  LET srcLength == Len(src)
      srcDuration == FlDiv(srcLength, srcFreq)
      dstLength == FlMul(srcDuration, dstFreq)
      adjFreq == FlDiv(srcFreq, dstFreq)
  IN [dstPtr1 \in 1..Floor(dstLength) |->
        pcmGetSample(src, srcLength, Floor(FlMul(adjFreq, dstPtr1 - 1)))]

\* getAudioTrackPcm, from the decoded track on
getAudioTrackPcm(srcPcm, srcFreq, dstFreq) ==
  IF srcFreq # dstFreq THEN pcmResampleNearestNeighbour(srcPcm, srcFreq, dstFreq) ELSE srcPcm

\* a caller asks for a track at rate dstFreq
Resample ==
  /\ pcmState = "ready"
  /\ pcmDst' = getAudioTrackPcm(pcmSrc, pcmFreqs.src, pcmFreqs.dst)
  /\ pcmState' = "done"
  /\ UNCHANGED <<pcmSrc, pcmFreqs, pcmRest>>

-----------------------------------------------------------------------------
(* pcmGetClippingRatio                                                      *)

MaxClipLen == 3
ClipSamples == {-32768, -32767, 0, 32767}

\* a plausible slip: strict comparisons, which no 16-bit sample satisfies
IsClippedStrict(sample) == sample < -32768 \/ sample > 32767

\* the test of the loop body
IsClipped(sample) == sample <= -32768 \/ sample >= 32767

\* numClippedSamples after the first i turns of the loop
RECURSIVE numClippedSamples(_, _)
numClippedSamples(src, i) ==
  IF i = 0 THEN 0
  ELSE numClippedSamples(src, i - 1) + (IF IsClipped(src[i]) THEN 1 ELSE 0)

\* pcmGetClippingRatio(src): the quotient numClippedSamples / numSamples, kept
\* as the pair of its operands; 0 / 0 is NaN
pcmGetClippingRatio(src) ==
  LET numSamples == Len(src)
  IN [num |-> numClippedSamples(src, numSamples), den |-> numSamples]

IsNaN(q) == q.num = 0 /\ q.den = 0
IsNumber(q, n) == q.den > 0 /\ q.num = n * q.den

ClipRatio ==
  /\ clipState = "ready"
  /\ audioClipRatio' = pcmGetClippingRatio(clipSrc)
  /\ clipState' = "done"
  /\ UNCHANGED <<clipSrc, clipRest>>

-----------------------------------------------------------------------------
(* PpmParser.getFramePixels, with the line data of the frame unpacked       *)

\* the pixels a line's chunk data holds (one chunk spans the scaled-down line)
LineBits(kind) == [x \in 1..PpmWidth |-> IF kind = "first" /\ x = 1 THEN 1 ELSE 0]

\* a line as the file holds it: its 2-bit line type, whether the line header
\* marks the chunk as stored, and the chunk's pixels
LineSample ==
  { [type |-> 0, stored |-> FALSE, bits |-> LineBits("none")],
    [type |-> 1, stored |-> TRUE, bits |-> LineBits("first")],
    [type |-> 2, stored |-> FALSE, bits |-> LineBits("none")],
    [type |-> 3, stored |-> TRUE, bits |-> LineBits("first")] }

LayerLines == [1..PpmHeight -> LineSample]
ZeroLines == [y \in 1..PpmHeight |-> [type |-> 0, stored |-> FALSE, bits |-> LineBits("none")]]
RawLines == [y \in 1..PpmHeight |-> [type |-> 3, stored |-> TRUE, bits |-> LineBits("first")]]

\* frames without translation
LineFrames == [isNewFrame : {0, 1}, lines : LayerLines \X {ZeroLines, RawLines}]

\* what the decoder may hold from earlier calls
PixBuffers == {Bitmap("blank"), Bitmap("full"), Bitmap("diag")}
PixPalettes == {<<0, 1, 3>>, <<1, 0, 2>>}

\* a plausible slip: the layer buffer is not cleared before unpacking
ResetLayerKept(buffer) == buffer

\* this.layerBuffers[n].fill(0)
ResetLayer(buffer) == [p \in DOMAIN buffer |-> 0]

\* the switch on lineType for the line y of a layer, written onto buffer
UnpackLine(line, buffer, p) ==
  LET x == ((p - 1) % PpmWidth) + 1
  IN CASE line.type = 0 -> buffer[p]
       [] line.type = 1 -> IF line.stored /\ \E x2 \in x..PpmWidth : line.bits[x2] = 1
                           THEN line.bits[x] ELSE buffer[p]
       [] line.type = 2 -> IF line.stored THEN line.bits[x] ELSE 1
       [] line.type = 3 -> line.bits[x]

\* the loops "unpack layer bitmaps" for one layer
UnpackLayer(lines, buffer) ==
  [p \in 1..(PpmWidth * PpmHeight) |-> UnpackLine(lines[((p - 1) \div PpmWidth) + 1], buffer, p)]

\* the frame as decodeFrame sees it once its lines are unpacked
PpmUnpacked(f, buffers) ==
  [isNewFrame |-> f.isNewFrame, translateX |-> 0, translateY |-> 0,
   decoded |-> <<UnpackLayer(f.lines[1], ResetLayer(buffers[1])),
                 UnpackLayer(f.lines[2], ResetLayer(buffers[2]))>>,
   truncated |-> FALSE]

\* the painting loop of getFramePixels
PaintFrame(layerPair, palette) ==
  [pixel \in 1..(PpmWidth * PpmHeight) |->
     IF layerPair[1][pixel] = 1 THEN palette[2]
     ELSE IF layerPair[2][pixel] = 1 THEN palette[3]
     ELSE palette[1]]

\* getFramePixels(0) on a one-frame file
GetFramePixels ==
  /\ pixState = "ready"
  /\ \E palette \in PixPalettes :
       LET file == <<PpmUnpacked(pixFrame, pixBefore.layerBuffers)>>
           r == PpmDecodeFrame(file, pixBefore, 0)
       IN /\ pixLayers' = r.layerBuffers
          /\ pixPalette' = palette
          /\ image' = PaintFrame(r.layerBuffers, palette)
  /\ pixState' = "done"
  /\ UNCHANGED <<pixFrame, pixBefore, pixRest>>

-----------------------------------------------------------------------------
(* DataStream: seek and the typed reads                                    *)

MaxStreamLen == 4
MaxStreamOps == 3
SeekOffsets == -2..(MaxStreamLen + 2)
\* Begin, Current, End
SeekWhence == {0, 1, 2}
\* the widths of readUint8 .. readInt32
ReadWidths == {1, 2, 4}

\* seek(offset, whence): the pointer it leaves
seek(at, length, offset, whence) ==
  CASE whence = 2 -> length + offset
    [] whence = 1 -> at + offset
    [] OTHER -> offset

\* DataView.getUint8 .. getInt32 and new Uint8Array(buffer, pointer, count)
\* raise a RangeError unless the bytes asked for lie inside the buffer
InsideBuffer(at, length, width) == at >= 0 /\ at + width <= length

StreamSeek ==
  /\ streamOps < MaxStreamOps
  /\ \E offset \in SeekOffsets, whence \in SeekWhence :
       streamPointer' = seek(streamPointer, streamLength, offset, whence)
  /\ streamThrew' = FALSE
  /\ streamOps' = streamOps + 1
  /\ UNCHANGED <<streamLength, streamRest>>

\* readUint8, readInt8, readUint16, readInt16, readUint32, readInt32: the
\* pointer advances only after the DataView call returned
StreamRead ==
  /\ streamOps < MaxStreamOps
  /\ \E width \in ReadWidths :
       IF InsideBuffer(streamPointer, streamLength, width)
       THEN streamPointer' = streamPointer + width /\ streamThrew' = FALSE
       ELSE streamPointer' = streamPointer /\ streamThrew' = TRUE
  /\ streamOps' = streamOps + 1
  /\ UNCHANGED <<streamLength, streamRest>>

\* readBytes(count)
StreamReadBytes ==
  /\ streamOps < MaxStreamOps
  /\ \E count \in 0..MaxStreamLen :
       IF InsideBuffer(streamPointer, streamLength, count)
       THEN streamPointer' = streamPointer + count /\ streamThrew' = FALSE
       ELSE streamPointer' = streamPointer /\ streamThrew' = TRUE
  /\ streamOps' = streamOps + 1
  /\ UNCHANGED <<streamLength, streamRest>>

-----------------------------------------------------------------------------
(* Player: on, off and emit                                                *)

MaxEventOps == 4
\* PlayerEvent.__Any, whose listeners fire on every emit
AnyEvent == "any"
EventTypes == {"play", "pause", AnyEvent}
Callbacks == {"f", "g"}

\* the event map of a new Player: no keys
NoEvents == [e \in {} |-> <<>>]

\* callbackList.indexOf(callback), 0-based, -1 when absent
RECURSIVE indexOf(_, _, _)
indexOf(list, callback, from) ==
  IF from > Len(list) THEN -1
  ELSE IF list[from] = callback THEN from - 1
  ELSE indexOf(list, callback, from + 1)

\* the elements callbackList.splice(start, 1) removes and returns; a negative
\* start counts from the end of the list
splice(list, start) ==
  LET from == IF start < 0 THEN (IF Len(list) + start < 0 THEN 0 ELSE Len(list) + start)
              ELSE (IF start > Len(list) THEN Len(list) ELSE start)
  IN IF from < Len(list) THEN <<list[from + 1]>> ELSE <<>>

\* on(eventType, listener), one event type
on(map, eventType, listener) ==
  IF eventType \notin DOMAIN map THEN (eventType :> <<listener>>) @@ map
  ELSE [map EXCEPT ![eventType] = Append(@, listener)]

\* off(eventType, callback), one event type: the map entry is set to the value
\* of the splice call
off(map, eventType, callback) ==
  IF eventType \notin DOMAIN map THEN map
  ELSE LET callbackList == map[eventType]
       IN [map EXCEPT ![eventType] = splice(callbackList, indexOf(callbackList, callback, 1))]

\* the callbacks emit(eventType) invokes: the list of the event type, then the
\* list of PlayerEvent.__Any
emit(map, eventType) ==
  [own |-> IF eventType # AnyEvent /\ eventType \in DOMAIN map THEN map[eventType] ELSE <<>>,
   any |-> IF AnyEvent \in DOMAIN map THEN map[AnyEvent] ELSE <<>>]

PlayerOn ==
  /\ eventOps < MaxEventOps
  /\ \E eventType \in EventTypes, listener \in Callbacks :
       /\ events' = on(events, eventType, listener)
       /\ registered' = [registered EXCEPT ![eventType] = @ \cup {listener}]
       /\ removed' = [removed EXCEPT ![eventType] = @ \ {listener}]
  /\ eventOps' = eventOps + 1
  /\ UNCHANGED <<emitted, invoked, eventRest>>

PlayerOff ==
  /\ eventOps < MaxEventOps
  /\ \E eventType \in EventTypes, callback \in Callbacks :
       /\ events' = off(events, eventType, callback)
       /\ removed' = [removed EXCEPT ![eventType] =
                        IF callback \in registered[eventType] THEN @ \cup {callback} ELSE @]
       /\ registered' = [registered EXCEPT ![eventType] = @ \ {callback}]
  /\ eventOps' = eventOps + 1
  /\ UNCHANGED <<emitted, invoked, eventRest>>

PlayerEmit ==
  /\ eventOps < MaxEventOps
  /\ \E eventType \in EventTypes :
       /\ emitted' = eventType
       /\ invoked' = emit(events, eventType)
  /\ eventOps' = eventOps + 1
  /\ UNCHANGED <<events, registered, removed, eventRest>>

-----------------------------------------------------------------------------
(* KwzParser.decodeFrame: the tile loops of a layer on the canvas           *)

\* the canvas scaled down: 40 x 30 tiles of 8 x 8 pixels in the source, large
\* tiles of 16 x 16 tiles (128 pixels), so that the canvas ends inside a large
\* tile in both directions
TilesAcross == 5
TilesDown == 3
MacroTiles == 2
TilePx == 2
KwzWidth == TilesAcross * TilePx
KwzHeight == TilesDown * TilePx
MacroPx == MacroTiles * TilePx
\* what a layer buffer holds before the call, in every pixel
Stale == 9

\* a tile code: its type, two line values, the line pattern (type 7), the rows
\* flagged in the flags byte (type 4) and the count (type 5)
Tile(tileType, a, b, pattern, count) ==
  [tileType |-> tileType, a |-> a, b |-> b, pattern |-> pattern, count |-> count]

\* layer data, each the endless repetition of a few codes
TilePatterns ==
  { <<Tile(0, 1, 1, 0, 0)>>,
    <<Tile(5, 0, 0, 0, 2), Tile(2, 1, 2, 0, 0)>>,
    <<Tile(3, 1, 2, 0, 0), Tile(5, 0, 0, 0, 3)>>,
    <<Tile(5, 0, 0, 0, 31)>>,
    <<Tile(6, 0, 0, 0, 0), Tile(7, 1, 2, 1, 0), Tile(5, 0, 0, 0, 0)>>,
    <<Tile(4, 1, 2, 0, 1), Tile(5, 0, 0, 0, 1), Tile(1, 2, 2, 0, 0)>>,
    <<Tile(7, 2, 1, 3, 0), Tile(5, 0, 0, 0, 4)>> }

CodeAt(codes, next) == codes[((next - 1) % Len(codes)) + 1]

\* the line written to row r of a tile, 0 for none (type 4: the rows below
\* count take the common line a)
RowLine(code, r) ==
  CASE code.tileType \in {0, 1} -> code.a
    [] code.tileType \in {2, 3} -> IF r % 2 = 0 THEN code.a ELSE code.b
    [] code.tileType = 4 -> IF r < code.count THEN code.a ELSE code.b
    [] code.tileType = 7 ->
         LET lines == CASE code.pattern = 0 -> <<1, 2, 1, 2, 1, 2, 1, 2>>
                        [] code.pattern = 1 -> <<1, 1, 2, 1, 1, 2, 1, 1>>
                        [] code.pattern = 2 -> <<1, 2, 1, 1, 2, 1, 1, 2>>
                        [] OTHER -> <<1, 2, 2, 1, 2, 2, 1, 2>>
         IN IF lines[r + 1] = 1 THEN code.a ELSE code.b
    [] OTHER -> 0

\* the bits the readBits calls of a code take
CodeBits(code) ==
  CASE code.tileType \in {0, 2, 5} -> 3 + 5
    [] code.tileType \in {1, 3} -> 3 + 13
    [] code.tileType = 4 -> 3 + 8 + 5 * code.count + 13 * (TilePx - code.count)
    [] code.tileType = 7 -> 3 + 2 + 1 + 2 * 13
    [] OTHER -> 3

\* a plausible slip: the loops run over whole large tiles
PastEdgeNever(v, limit) == FALSE

\* if (y >= 240) break; if (x >= 320) break
PastEdge(v, limit) == v >= limit

\* the tile slots in the order the four loops reach them, from the loop
\* variables on
RECURSIVE TileSlots(_, _, _, _)
TileSlots(tileOffsetY, tileOffsetX, subTileOffsetY, subTileOffsetX) ==
  IF ~ (tileOffsetY < KwzHeight) THEN <<>>
  ELSE IF ~ (tileOffsetX < KwzWidth) THEN TileSlots(tileOffsetY + MacroPx, 0, 0, 0)
  ELSE IF ~ (subTileOffsetY < MacroPx) \/ PastEdge(tileOffsetY + subTileOffsetY, KwzHeight)
  THEN TileSlots(tileOffsetY, tileOffsetX + MacroPx, 0, 0)
  ELSE IF ~ (subTileOffsetX < MacroPx) \/ PastEdge(tileOffsetX + subTileOffsetX, KwzWidth)
  THEN TileSlots(tileOffsetY, tileOffsetX, subTileOffsetY + TilePx, 0)
  ELSE <<[x |-> tileOffsetX + subTileOffsetX, y |-> tileOffsetY + subTileOffsetY]>>
       \o TileSlots(tileOffsetY, tileOffsetX, subTileOffsetY, subTileOffsetX + TilePx)

\* the buffer indices pixelBuffer.set writes for a tile at pixelBufferPtr: rows
\* of TilePx pixels, the pointer moved on by the width after each
TileWrites(pixelBufferPtr, code) ==
  {pixelBufferPtr + r * KwzWidth + c : r \in {q \in 0..(TilePx - 1) : RowLine(code, q) # 0},
                                       c \in 0..(TilePx - 1)}

\* the pixels after the writes of a tile
DrawTile(pixelBuffer, pixelBufferPtr, code) ==
  [p \in DOMAIN pixelBuffer |->
     IF p - 1 \in TileWrites(pixelBufferPtr, code)
     THEN RowLine(code, (p - 1 - pixelBufferPtr) \div KwzWidth)
     ELSE pixelBuffer[p]]

\* a plausible slip: the skip counter is declared outside the layer loop
FirstSkipCarried(pending) == pending

\* let skipTileCounter = 0, at the start of every layer
FirstSkip(pending) == 0

\* the body of the innermost loop for the slots from k on; st holds the pixel
\* buffer, the next code to read, the skip counter and the log of the turns
RECURSIVE TileLoop(_, _, _, _)
TileLoop(st, codes, slots, k) ==
  IF k > Len(slots) THEN st
  ELSE LET slot == slots[k]
           pixelBufferPtr == slot.y * KwzWidth + slot.x
           code == CodeAt(codes, st.next)
           turn(skipped, bits, wrote) ==
             Append(st.log, [x |-> slot.x, y |-> slot.y, skipped |-> skipped,
                             tileType |-> IF skipped THEN -1 ELSE code.tileType,
                             count |-> IF skipped THEN 0 ELSE code.count,
                             bits |-> bits, wrote |-> wrote])
       IN IF st.skipTileCounter > 0
          THEN TileLoop([st EXCEPT !.skipTileCounter = @ - 1, !.log = turn(TRUE, 0, {})],
                        codes, slots, k + 1)
          ELSE IF code.tileType = 5
          THEN TileLoop([st EXCEPT !.skipTileCounter = code.count, !.next = @ + 1,
                                   !.log = turn(FALSE, CodeBits(code), {})],
                        codes, slots, k + 1)
          ELSE TileLoop([st EXCEPT !.pixelBuffer = DrawTile(@, pixelBufferPtr, code),
                                   !.next = @ + 1,
                                   !.log = turn(FALSE, CodeBits(code),
                                                TileWrites(pixelBufferPtr, code))],
                        codes, slots, k + 1)

\* if (this.settings.dsiLibraryNote && layerIndex === 3) break
LayerLeftOut(dsiLibraryNote, layerIndex) == dsiLibraryNote /\ layerIndex = 3

\* one turn of the layer loop of decodeFrame (layerIndex is tileLayer), for a
\* frame whose layers are all decoded: none of size 38, diffingFlag 7; every
\* layer has its own buffer
DecodeLayerTiles ==
  /\ tileLayer < 3
  /\ ~ LayerLeftOut(tileDsi, tileLayer)
  /\ LET r == TileLoop([pixelBuffer |-> [p \in 1..(KwzWidth * KwzHeight) |-> Stale],
                        next |-> 1, skipTileCounter |-> FirstSkip(tilePending), log |-> <<>>],
                       tileCodes[tileLayer + 1], TileSlots(0, 0, 0, 0), 1)
     IN /\ tileBuffer' = r.pixelBuffer
        /\ tileLog' = r.log
        /\ tilePending' = r.skipTileCounter
  /\ tileLayer' = tileLayer + 1
  /\ UNCHANGED <<tileCodes, tileDsi, tileRest>>

-----------------------------------------------------------------------------
(* KwzParser.getFrameLayerOrder and getFramePixels: layers into one image  *)

\* the crop of gallery-import notes on the scaled canvas: cropStartY (32),
\* cropStartX (24) and what is taken off the width (64) and the height (48)
cropStartY == 1
cropStartX == 2
CropOffWidth == 4
CropOffHeight == 2
cropWidth == KwzWidth - CropOffWidth
cropHeight == KwzHeight - CropOffHeight
srcStride == KwzWidth

\* layer buffers of pixel values 0..2, by pixel index from 0
KwzPixBuffers ==
  { [p \in 1..(KwzWidth * KwzHeight) |-> 0],
    [p \in 1..(KwzWidth * KwzHeight) |-> 2],
    [p \in 1..(KwzWidth * KwzHeight) |-> (p - 1) % 3],
    [p \in 1..(KwzWidth * KwzHeight) |-> ((p - 1) \div 3) % 3] }

\* the three depth bytes of a frame
LayerDepths == {0, 1, 2} \X {0, 1, 2} \X {0, 1, 2}

\* getFramePaletteIndices: paper first, then two entries per layer
KwzPalettes == { <<7, 1, 2, 3, 4, 5, 6>>, <<0, 8, 9, 10, 11, 12, 13>> }

\* a plausible slip: ascending depth
DepthCompareAscending(depths, a, b) == depths[a + 1] - depths[b + 1]

\* (a, b) => depths[b] - depths[a]
DepthCompare(depths, a, b) == depths[b + 1] - depths[a + 1]

\* Array.prototype.sort is stable: an element goes behind every element the
\* comparator does not put behind it
RECURSIVE InsertSorted(_, _, _)
InsertSorted(sorted, e, depths) ==
  IF sorted = <<>> THEN <<e>>
  ELSE IF DepthCompare(depths, sorted[1], e) > 0
  THEN <<e>> \o sorted
  ELSE <<sorted[1]>> \o InsertSorted(Tail(sorted), e, depths)

RECURSIVE StableSort(_, _)
StableSort(items, depths) ==
  IF items = <<>> THEN <<>>
  ELSE InsertSorted(StableSort(SubSeq(items, 1, Len(items) - 1), depths),
                    items[Len(items)], depths)

\* [2, 1, 0].sort(...)
getFrameLayerOrder(depths) == StableSort(<<2, 1, 0>>, depths)

\* the buffer index the gallery-import loop is at in row y for loop variable x:
\* srcPtr starts the row at y * srcStride and goes up by one each turn
SrcPtr(y, x) == y * srcStride + (x - cropStartX)

\* the image getFramePixels builds from this.layers
KwzFramePixels(kwzLayers, palette, layerOrder, dsiLibraryNote) ==
  LET layerA == kwzLayers[layerOrder[3] + 1]
      layerB == kwzLayers[layerOrder[2] + 1]
      layerC == kwzLayers[layerOrder[1] + 1]
      layerAOffset == layerOrder[3] * 2
      layerBOffset == layerOrder[2] * 2
      layerCOffset == layerOrder[1] * 2
      visited == {SrcPtr(y, x) : y \in cropStartY..(cropHeight - 1),
                                 x \in cropStartX..(cropWidth - 1)}
  IN [p \in 1..(KwzWidth * KwzHeight) |->
        LET a == layerA[p]
            b == layerB[p]
            c == layerC[p]
        IN IF ~ dsiLibraryNote
           THEN IF a # 0 THEN palette[layerAOffset + a + 1]
                ELSE IF b # 0 THEN palette[layerBOffset + b + 1]
                ELSE IF c # 0 THEN palette[layerCOffset + c + 1]
                ELSE palette[1]
           ELSE IF p - 1 \notin visited THEN palette[1]
                ELSE IF a # 0 THEN palette[layerAOffset + a + 1]
                ELSE IF b # 0 THEN palette[layerBOffset + b + 1]
                ELSE palette[1]]

\* getFramePixels(frameIndex): decodeFrame first unless the frame is the one
\* decoded last, then the image
KwzGetFramePixels ==
  /\ kpState = "ready"
  /\ kpLayers' = IF kpCached THEN kpLayers ELSE kpDecoded
  /\ kpCached' = TRUE
  /\ kpImage' = KwzFramePixels(kpLayers', kpPalette, getFrameLayerOrder(kpDepths), kpDsi)
  /\ kpState' = "done"
  /\ UNCHANGED <<kpDecoded, kpDepths, kpPalette, kpDsi, kpixRest>>

-----------------------------------------------------------------------------
(* PpmParser.decodeSoundHeader: the two speed bytes                        *)

\* PPM_FRAMERATES in halves of a frame per second: 0.5, 0.5, 1, 2, 4, 6, 12,
\* 20, 30
PPM_FRAMERATES == <<1, 1, 2, 4, 8, 12, 24, 40, 60>>

\* PPM_FRAMERATES[index]: undefined for an index the array does not have
FramerateAt(index) ==
  IF index \in 0..(Len(PPM_FRAMERATES) - 1) THEN PPM_FRAMERATES[index + 1] ELSE Undefined

\* the values of a byte readUint8 returns
SpeedBytes == 0..255

\* assert(this.frameSpeed <= 8 && this.bgmSpeed <= 8)
SpeedsAccepted(fs, bs) == fs <= 8 /\ bs <= 8

\* decodeSoundHeader in the constructor: the first assert fails where the
\* header lies past the end of the file; the track lengths it reads play no
\* part in the speeds
decodeSoundHeader ==
  /\ soundState = "ready"
  /\ IF ~ soundPtrInside
     THEN /\ soundState' = "failed"
          /\ UNCHANGED <<frameSpeed, bgmSpeed, framerate, bgmrate>>
     ELSE /\ frameSpeed' = 8 - rawSpeeds[1]
          /\ bgmSpeed' = 8 - rawSpeeds[2]
          /\ IF ~ SpeedsAccepted(frameSpeed', bgmSpeed')
             THEN /\ soundState' = "failed"
                  /\ UNCHANGED <<framerate, bgmrate>>
             ELSE /\ framerate' = FramerateAt(frameSpeed')
                  /\ bgmrate' = FramerateAt(bgmSpeed')
                  /\ soundState' = "done"
  /\ UNCHANGED <<rawSpeeds, soundPtrInside, soundRest>>

-----------------------------------------------------------------------------
(* getAudioMasterPcm of both parsers                                       *)

MaxMasterFrames == 3

\* frame rates and target sample rates, scaled down
MasterFramerates == {1, 2}
MasterFreqs == {2, 3}

\* what getAudioTrackPcm returns for a track at the target rate; a track that
\* is absent (hasAudioTrack false) is <<>>
MasterClips == {<<1000, 1000, 1000>>, <<32767, -5>>}
NoTrack == <<>>
MasterBgms == {NoTrack, <<7, 7, 7, 7, 7, 7, 7>>}

\* SE1..SE3 in format A, SE1..SE4 in format B
EffectTracks(kind) == IF kind = "PPM" THEN 3 ELSE 4

\* the sound effect tracks of a file
MasterEffects(kind) ==
  { [t \in 1..EffectTracks(kind) |-> NoTrack],
    [t \in 1..EffectTracks(kind) |-> IF t = 1 THEN <<1000, 1000, 1000>> ELSE NoTrack],
    [t \in 1..EffectTracks(kind) |-> IF t = 2 THEN NoTrack ELSE <<32767, -5>>],
    [t \in 1..EffectTracks(kind) |-> IF t = EffectTracks(kind) THEN <<1000, 1000, 1000>> ELSE <<32767, -5>>] }

\* the sound effect flags of a frame
FrameFlags(kind) ==
  { [t \in 1..EffectTracks(kind) |-> 0],
    [t \in 1..EffectTracks(kind) |-> 1],
    [t \in 1..EffectTracks(kind) |-> IF t = 2 THEN 1 ELSE 0] }

\* Math.ceil of a number that is not negative
Ceil(x) == (x.num + x.den - 1) \div x.den

\* timeGetNoteDuration: ((frameCount * 100) * (1 / framerate)) / 100
timeGetNoteDuration(count, rate) ==
  LET hundredfold == Fl([num |-> count * 100, den |-> 1])
      inverse == FlDiv(1, rate)
      product == Fl([num |-> hundredfold.num * inverse.num, den |-> hundredfold.den * inverse.den])
  IN Fl([num |-> product.num, den |-> product.den * 100])

hasAudioTrack(track) == Len(track) > 0

\* a plausible slip: the offset of a frame rounded down
seOffsetFloor(frame, samplesPerFrame) == Floor(FlMul(samplesPerFrame, frame))

\* Math.ceil(frame * samplesPerFrame)
seOffset(frame, samplesPerFrame) == Ceil(FlMul(samplesPerFrame, frame))

\* the ifs of one turn of the frame loop, from track t on
RECURSIVE MixFrameEffects(_, _, _, _, _, _)
MixFrameEffects(kind, dst, sePcm, flag, offset, t) ==
  IF t > Len(sePcm) THEN dst
  ELSE MixFrameEffects(kind,
                       IF hasAudioTrack(sePcm[t]) /\ flag[t] # 0
                       THEN pcmAudioMix(kind, sePcm[t], dst, offset, 0)
                       ELSE dst,
                       sePcm, flag, offset, t + 1)

\* the frame loop from frame on
RECURSIVE MixFrames(_, _, _, _, _, _, _)
MixFrames(kind, dst, sePcm, seFlags, samplesPerFrame, count, frame) ==
  IF ~ (frame < count) THEN dst
  ELSE MixFrames(kind,
                 MixFrameEffects(kind, dst, sePcm, seFlags[frame + 1],
                                 seOffset(frame, samplesPerFrame), 1),
                 sePcm, seFlags, samplesPerFrame, count, frame + 1)

\* getAudioMasterPcm(dstFreq)
getAudioMasterPcm(kind, duration, count, rate, bgmPcm, sePcm, seFlags, dstFreq) ==
  LET dstSize == Ceil(Fl([num |-> duration.num * dstFreq, den |-> duration.den]))
      silence == [k \in 1..dstSize |-> 0]
      withBgm == IF hasAudioTrack(bgmPcm) THEN pcmAudioMix(kind, bgmPcm, silence, 0, 0) ELSE silence
  IN IF \E t \in 1..Len(sePcm) : hasAudioTrack(sePcm[t])
     THEN MixFrames(kind, withBgm, sePcm, seFlags, FlDiv(dstFreq, rate), count, 0)
     ELSE withBgm

\* a caller asks for the master track at rate dstFreq
GetAudioMasterPcm ==
  /\ masterState = "ready"
  /\ \E dstFreq \in MasterFreqs :
       /\ masterFreq' = dstFreq
       /\ masterPcm' = getAudioMasterPcm(masterNote.kind, masterNote.duration, masterNote.frameCount,
                                         masterNote.framerate, masterNote.bgm, masterNote.se,
                                         masterNote.seFlags, dstFreq)
  /\ masterClipRatio' = pcmGetClippingRatio(masterPcm')
  /\ masterState' = "done"
  /\ UNCHANGED <<masterNote, masterRest>>

-----------------------------------------------------------------------------
(* Initial states: component c starts in the states its construction or    *)
(* reset leaves; every other component is idle.                            *)

Init(c) ==
  /\ \E a \in (IF c = "adpcm" THEN AdpcmStart
                ELSE {[kind |-> "idle", stepIndex |-> 0, currBit |-> 0]}) :
       /\ adpcmKind = a.kind
       /\ stepIndex = a.stepIndex
       /\ currBit = a.currBit
  /\ predictor = 0
  /\ currByte = 0
  /\ srcPtr = 0
  /\ output = [count |-> 0, last |-> 0]
  /\ byteCodes = <<>>
  /\ byteLength \in (IF c = "scan" THEN ScanByteLengths
                     ELSE IF c = "offsets" THEN OffsetByteLengths
                     ELSE IF c = "anim" THEN AnimByteLengths ELSE {0})
  /\ sectionMap \in (IF c = "offsets" THEN OffsetSectionMaps(byteLength) ELSE {<<>>})
  /\ sectionCount = 0
  /\ ptr = 0
  /\ buildState = IF c = "scan" THEN "scanning" ELSE IF c = "offsets" THEN "built" ELSE "idle"
  /\ numFrames \in (IF c = "offsets" THEN 0..MaxOffsetFrames ELSE {0})
  /\ frameMetaOffsets = <<>>
  /\ frameDataOffsets = <<>>
  /\ frameLayerSizes = <<>>
  /\ offsetsLocal = <<>>
  /\ offsetsState = IF c = "offsets" THEN "start" ELSE "idle"
  /\ format \in (IF c = "decode" THEN {"PPM", "KWZ"} ELSE {"none"})
  /\ frames \in (IF format = "PPM" THEN PpmFiles ELSE IF format = "KWZ" THEN KwzFiles ELSE {<<>>})
  /\ frameCount \in (IF c = "anim" THEN 1..MaxFrames ELSE {Len(frames)})
  /\ frameOffsets = <<>>
  /\ animLocal = <<>>
  /\ animState = IF c = "anim" THEN "start" ELSE "idle"
  /\ seekTo = <<>>
  /\ layerBuffers = PpmFresh.layerBuffers
  /\ prevLayerBuffers = PpmFresh.prevLayerBuffers
  /\ prevDecodedFrame = Null
  /\ layers = KwzFresh.layers
  /\ prevFrameIndex = Null
  /\ lastCalls = <<Null, Null>>
  /\ inOrder = 0
  /\ threw = FALSE
  /\ visits = <<>>
  /\ mixKind \in (IF c = "mix" THEN {"PPM", "KWZ"} ELSE {"idle"})
  /\ master = [k \in 1..(IF c = "mix" THEN MixMasterLen ELSE 0) |-> 0]
  /\ mixLog = <<>>
  /\ pcmSrc \in (IF c = "pcm" THEN FilesOver(PcmSamples, MaxPcmLen) ELSE {<<>>})
  /\ pcmFreqs \in (IF c = "pcm" THEN [src : ResampleFreqs, dst : ResampleFreqs] ELSE {<<>>})
  /\ pcmDst = <<>>
  /\ pcmState = IF c = "pcm" THEN "ready" ELSE "idle"
  /\ clipSrc \in (IF c = "clip" THEN FilesOver(ClipSamples, MaxClipLen) ELSE {<<>>})
  /\ audioClipRatio = [num |-> 0, den |-> 0]
  /\ clipState = IF c = "clip" THEN "ready" ELSE "idle"
  /\ pixFrame \in (IF c = "pix" THEN LineFrames ELSE {<<>>})
  /\ pixBefore \in (IF c = "pix"
                    THEN [layerBuffers : {<<b, b>> : b \in PixBuffers},
                          prevLayerBuffers : {<<b, b>> : b \in PixBuffers},
                          prevDecodedFrame : {Null}, threw : {FALSE}, visits : {<<>>}]
                    ELSE {<<>>})
  /\ pixLayers = <<>>
  /\ pixPalette = <<>>
  /\ image = <<>>
  /\ pixState = IF c = "pix" THEN "ready" ELSE "idle"
  /\ streamLength \in (IF c = "stream" THEN 0..MaxStreamLen ELSE {0})
  /\ streamPointer = 0
  /\ streamThrew = FALSE
  /\ streamOps = 0
  /\ events = NoEvents
  /\ registered = [e \in EventTypes |-> {}]
  /\ removed = [e \in EventTypes |-> {}]
  /\ emitted = "none"
  /\ invoked = [own |-> <<>>, any |-> <<>>]
  /\ eventOps = 0
  /\ tileCodes \in (IF c = "tiles" THEN TilePatterns \X TilePatterns \X TilePatterns ELSE {<<>>})
  /\ tileDsi \in (IF c = "tiles" THEN BOOLEAN ELSE {FALSE})
  /\ tileLayer = 0
  /\ tileBuffer = <<>>
  /\ tileLog = <<>>
  /\ tilePending = 0
  /\ kpDecoded \in (IF c = "kpix" THEN KwzPixBuffers \X KwzPixBuffers \X KwzPixBuffers ELSE {<<>>})
  /\ kpDepths \in (IF c = "kpix" THEN LayerDepths ELSE {<<>>})
  /\ kpPalette \in (IF c = "kpix" THEN KwzPalettes ELSE {<<>>})
  /\ kpDsi \in (IF c = "kpix" THEN BOOLEAN ELSE {FALSE})
  /\ kpCached \in (IF c = "kpix" THEN BOOLEAN ELSE {FALSE})
  /\ kpLayers = IF c # "kpix" THEN <<>>
                ELSE IF kpCached THEN kpDecoded
                ELSE [l \in 1..3 |-> [p \in 1..(KwzWidth * KwzHeight) |-> 0]]
  /\ kpImage = <<>>
  /\ kpState = IF c = "kpix" THEN "ready" ELSE "idle"
  /\ rawSpeeds \in (IF c = "sound" THEN SpeedBytes \X SpeedBytes ELSE {<<>>})
  /\ soundPtrInside \in (IF c = "sound" THEN BOOLEAN ELSE {FALSE})
  /\ frameSpeed = Undefined
  /\ bgmSpeed = Undefined
  /\ framerate = Undefined
  /\ bgmrate = Undefined
  /\ soundState = IF c = "sound" THEN "ready" ELSE "idle"
  /\ masterNote \in (IF c = "master"
                     THEN UNION { [kind : {kind}, frameCount : {count}, framerate : {rate},
                                   duration : {timeGetNoteDuration(count, rate)},
                                   bgm : MasterBgms, se : MasterEffects(kind),
                                   seFlags : [1..count -> FrameFlags(kind)]] :
                                  kind \in {"PPM", "KWZ"}, count \in 1..MaxMasterFrames,
                                  rate \in MasterFramerates }
                     ELSE {<<>>})
  /\ masterFreq = 0
  /\ masterPcm = <<>>
  /\ masterClipRatio = [num |-> 0, den |-> 0]
  /\ masterState = IF c = "master" THEN "ready" ELSE "idle"
  /\ arrayBuffer \in (IF c = "sniff" THEN SniffBuffers ELSE {<<>>})
  /\ parser = "none"
  /\ bitStream \in (IF c = "bits" THEN BitStreams ELSE {<<>>})
  /\ pointer = 0
  /\ bitIndex = 16
  /\ bitValue = 0
  /\ bitLog = [sum |-> 0, acc |-> <<>>, maxNum |-> 0]

SpecSniff == Init("sniff") /\ [][parseSource]_vars
SpecBits  == Init("bits") /\ [][ReadBits]_vars
SpecScan  == Init("scan") /\ [][ScanSection \/ ScanFinish]_vars
SpecOffsets == Init("offsets") /\ [][OffsetsStart \/ OffsetsStep \/ OffsetsFinish]_vars
SpecAnim  == Init("anim") /\ [][decodeAnimationHeader \/ AnimReadOffset \/ AnimFinish \/ SeekFrame]_vars
SpecDecode == Init("decode") /\ [][PpmDecode \/ KwzDecode]_vars
SpecMix   == Init("mix") /\ [][MixEffect]_vars
SpecPcm   == Init("pcm") /\ [][Resample]_vars
SpecClip  == Init("clip") /\ [][ClipRatio]_vars
SpecPix   == Init("pix") /\ [][GetFramePixels]_vars
SpecStream == Init("stream") /\ [][StreamSeek \/ StreamRead \/ StreamReadBytes]_vars
SpecEvents == Init("events") /\ [][PlayerOn \/ PlayerOff \/ PlayerEmit]_vars
SpecTiles == Init("tiles") /\ [][DecodeLayerTiles]_vars
SpecKwzPix == Init("kpix") /\ [][KwzGetFramePixels]_vars
SpecSound == Init("sound") /\ [][decodeSoundHeader]_vars
SpecMaster == Init("master") /\ [][GetAudioMasterPcm]_vars
SpecAdpcm == Init("adpcm") /\ [][PpmAdpcmStep \/ KwzAdpcmStep]_vars

-----------------------------------------------------------------------------
\* C5: the dispatcher constructs a format A decoder exactly when the first four
\* bytes are "PARA", a format B decoder exactly when the first three bytes are
\* "KFH" (whatever the fourth byte is, if any), and rejects every other buffer
\* without constructing a decoder.
StartsWith(buf, prefix) ==
  /\ Len(buf) >= Len(prefix)
  /\ \A i \in 1..Len(prefix) : buf[i] = prefix[i]

C5_Dispatch ==
  parser # "none" =>
    /\ (parser = "PpmParser") <=> StartsWith(arrayBuffer, <<80, 65, 82, 65>>)
    /\ (parser = "KwzParser") <=> StartsWith(arrayBuffer, <<75, 70, 72>>)
    /\ (parser = "rejected") <=>
         ~ (StartsWith(arrayBuffer, <<80, 65, 82, 65>>) \/ StartsWith(arrayBuffer, <<75, 70, 72>>))

C5_Witness ==
  /\ parser = "KwzParser"
  /\ Len(arrayBuffer) = 4
  /\ arrayBuffer[4] = 255

\* the first n bits of the stream: 16-bit little-endian words in file order,
\* each word least significant bit first
RECURSIVE StreamBits(_, _, _)
StreamBits(stream, at, n) ==
  IF n = 0 THEN <<>>
  ELSE BitsOf(stream[at + 1] + 256 * stream[at + 2], 16) \o StreamBits(stream, at + 2, n - 16)

BitsExact ==
  /\ pointer = 2 * (bitLog.sum \div 16)
  /\ bitLog.acc = StreamBits(bitStream, 0, bitLog.sum)

C10_AdpcmRanges ==
  output.count > 0 =>
    /\ adpcmKind = "ppm" =>
         /\ stepIndex \in 0..88
         /\ predictor \in -32768..32767
         /\ output.last = predictor
    /\ adpcmKind = "kwz" =>
         /\ stepIndex \in 0..79
         /\ predictor \in -2048..2047
         /\ output.last = predictor * 16
    /\ output.last \in -32768..32767

C10_Witness ==
  /\ adpcmKind = "ppm"
  /\ stepIndex = 88
  /\ predictor = 32767
  /\ output.last = 32767

\* C8: building the section map reads at most 6 section records whatever the
\* file holds, so the map never has more than 6 entries, and construction goes
\* on only if both the KMI and the KMC section were found among them.
C8_SectionCap ==
  /\ sectionCount <= 6
  /\ Cardinality(DOMAIN sectionMap) <= 6
  /\ buildState = "built" => {"KMC", "KMI"} \subseteq DOMAIN sectionMap
  /\ buildState = "failed" => ~ ({"KMC", "KMI"} \subseteq DOMAIN sectionMap)

\* six records were read although the file has room for more
C8_Witness ==
  /\ buildState = "built"
  /\ sectionCount = 6
  /\ Cardinality(DOMAIN sectionMap) = 6
  /\ ptr < byteLength - 256

\* what buildSectionMap leaves for getFrameOffsets: every recorded section
\* starts more than 256 bytes ahead of the end of the file
ScanPtrInFile == \A m \in DOMAIN sectionMap : sectionMap[m].ptr < byteLength - 256

RECURSIVE SumSizes(_, _)
SumSizes(sizes, n) ==
  IF n = 0 THEN 0 ELSE SumSizes(sizes, n - 1) + sizes[n][1] + sizes[n][2] + sizes[n][3]

\* C7: once getFrameOffsets has returned, every stored metadata offset and
\* pixel-data offset is below the buffer length and is the plain cumulative
\* sum (not clamped, not wrapped); while the tables are being built no computed
\* pointer at or past the buffer length is carried into a further turn, the
\* construction has failed instead.
C7_OffsetsInFile ==
  /\ offsetsState = "done" =>
       /\ Len(frameMetaOffsets) = numFrames /\ Len(frameDataOffsets) = numFrames
       /\ \A k \in 1..numFrames :
            /\ frameMetaOffsets[k] < byteLength
            /\ frameDataOffsets[k] < byteLength
            /\ frameMetaOffsets[k] = sectionMap["KMI"].ptr + 8 + 28 * (k - 1)
            /\ frameDataOffsets[k] = sectionMap["KMC"].ptr + 12 + SumSizes(frameLayerSizes, k - 1)
  /\ offsetsState \in {"loop", "done"} =>
       /\ offsetsLocal.frameMetaPtr < byteLength
       /\ offsetsLocal.frameDataPtr < byteLength
  /\ (offsetsState = "failed" /\ offsetsLocal # <<>>) =>
       \/ offsetsLocal.frameMetaPtr >= byteLength
       \/ offsetsLocal.frameDataPtr >= byteLength
       \/ offsetsLocal.frameMetaPtr + 10 > byteLength

\* three frames of unequal sizes have been given offsets
C7_Witness ==
  /\ offsetsState = "done"
  /\ numFrames = 3
  /\ frameDataOffsets[3] - frameDataOffsets[2] = 176
  /\ frameDataOffsets[3] < byteLength

\* what decodeAnimationHeader does establish: no more offsets than frames,
\* each of them below the buffer length
AnimOffsetsValidated ==
  animState = "done" =>
    /\ Len(frameOffsets) <= frameCount
    /\ \A k \in DOMAIN frameOffsets : frameOffsets[k] < byteLength

\* C6: after successful construction of a format A decoder the frame offset
\* table holds one validated offset, below the buffer length, for every frame
\* index 0..frameCount-1, and decodeFrame(i) for a valid i seeks to an offset
\* taken from that table.
C6_OneOffsetPerFrame ==
  /\ animState = "done" =>
       /\ Len(frameOffsets) = frameCount
       /\ \A k \in 1..frameCount : frameOffsets[k] < byteLength
  /\ seekTo # <<>> =>
       /\ seekTo.offset # Undefined
       /\ seekTo.offset < byteLength

\* format A: after decodeFrame(0), ..., decodeFrame(n-1) in order on a fresh
\* decoder the buffers are those of one decodeFrame(n-1) on a fresh decoder
PpmForwardIsRecursive ==
  (format = "PPM" /\ inOrder >= 1) =>
    layerBuffers = PpmDecodeFrame(frames, PpmFresh, inOrder - 1).layerBuffers

\* format B: after decodeFrame(0), ..., decodeFrame(n-1) in order on a fresh
\* decoder the buffers are those of one decodeFrame(n-1) on a fresh decoder
KwzForwardIsRecursive ==
  (format = "KWZ" /\ inOrder >= 1) =>
    layers = KwzDecodeFrame(frames, KwzFresh, inOrder - 1, 7, FALSE).layers

\* C1: for either decoder and every valid i, decodeFrame(0), ..., decodeFrame(i)
\* in order on a fresh decoder leave the layer buffers that one decodeFrame(i)
\* on a fresh decoder of the same file leaves.
C1_ForwardIsRecursive == PpmForwardIsRecursive /\ KwzForwardIsRecursive

ValidIndex(i) == i \in 0..(frameCount - 1)

\* this step is decodeFrame(i) directly after decodeFrame(i), i valid
RepeatsCall == ValidIndex(lastCalls[2]) /\ lastCalls' = <<lastCalls[2], lastCalls[2]>>

\* format B: the second of two decodeFrame(i) calls in a row leaves the buffers
\* of the first
KwzDecodeTwice == [][(format = "KWZ" /\ RepeatsCall) => layers' = layers]_vars

\* no frame of the format A file is cut short by the end of the file
PpmIntact == \A k \in 1..Len(frames) : ~ frames[k].truncated

\* format A, whole files that open with a new frame: the same
PpmDecodeTwiceKeyed ==
  [][(format = "PPM" /\ RepeatsCall /\ frames[1].isNewFrame = 1 /\ PpmIntact) =>
       layerBuffers' = layerBuffers]_vars

\* C2: for either decoder and every valid i, frame 0 and frames that are not
\* new included, decodeFrame(i) directly after decodeFrame(i) leaves the layer
\* buffers as the first call left them.
C2_DecodeTwice == [][RepeatsCall => (layerBuffers' = layerBuffers /\ layers' = layers)]_vars

\* all three layers of the frame are 38 bytes long
AllUnchanged(frame) == \A l \in 1..3 : frame.layers[l].size = 38

\* C3 as stated: in format B, decodeFrame(i) on a frame whose three layers are
\* all 38 bytes long leaves the three layer buffers as they were before the
\* call, whatever was decoded last.
C3_AsStated ==
  [][LET i == lastCalls'[2]
     IN (format = "KWZ" /\ ValidIndex(i) /\ AllUnchanged(frames[i + 1])) => layers' = layers]_vars

\* C3: in format B, decodeFrame(i) on a frame whose three layers are all 38
\* bytes long leaves the three layer buffers as they were before the call when
\* i is 0 or frame i-1 was decoded last; from any other state the buffers are
\* those the decoding of frame i-1 as a previous frame leaves, frame i itself
\* adds nothing.
C3_UnchangedFrame ==
  [][LET i == lastCalls'[2]
     IN (format = "KWZ" /\ ValidIndex(i) /\ AllUnchanged(frames[i + 1])) =>
          layers' = IF prevFrameIndex = i - 1 \/ i = 0 THEN layers
                    ELSE KwzDecodeFrame(frames, KwzState, i - 1, 7, TRUE).layers]_vars

\* frame i-1 and then frame i were decoded; frame i is 38 bytes a layer, its
\* first layer holds codes that would write, and the buffers still show frame i-1
C3_Witness ==
  /\ format = "KWZ" /\ ~ threw
  /\ lastCalls[2] >= 1 /\ lastCalls[2] < frameCount
  /\ lastCalls[1] = lastCalls[2] - 1
  /\ prevFrameIndex = lastCalls[2]
  /\ AllUnchanged(frames[lastCalls[2] + 1])
  /\ frames[lastCalls[2] + 1].layers[1].codes = FillCodes(2)
  /\ \A k \in 1..KwzTiles : layers[1][k] = 1

\* C4: for either decoder, decodeFrame(i) with i < 0 or i >= frameCount throws
\* and leaves the layer buffers and the last decoded frame index as they were.
C4_OutOfRangeThrows ==
  [][~ ValidIndex(lastCalls'[2]) =>
       /\ threw'
       /\ UNCHANGED <<layerBuffers, prevLayerBuffers, prevDecodedFrame, layers, prevFrameIndex>>]_vars

\* decodeFrame(frameCount) has thrown on a format B decoder that holds an
\* earlier frame than the last one
C4_Witness ==
  /\ format = "KWZ" /\ threw
  /\ lastCalls[2] = frameCount
  /\ ValidIndex(lastCalls[1])
  /\ prevFrameIndex = lastCalls[1] /\ prevFrameIndex < frameCount - 1
  /\ layers # KwzFresh.layers

\* sample k (from 0) of the master after the first n logged triggers, each
\* adding scale/2 of its clip's sample, cut to the 16-bit range
RECURSIVE MixedSample(_, _, _)
MixedSample(k, n, scale) ==
  IF n = 0 THEN 0
  ELSE LET before == MixedSample(k, n - 1, scale)
           m == mixLog[n]
           at == k - m.seOffset
       IN IF at >= 0 /\ at < Len(m.src)
          THEN TruncHalf(clamp(2 * before + scale * m.src[at + 1], -65536, 65534))
          ELSE before

C12_Resample ==
  pcmState = "done" =>
    /\ pcmFreqs.dst = pcmFreqs.src => pcmDst = pcmSrc
    /\ pcmFreqs.dst = 2 * pcmFreqs.src =>
         /\ Len(pcmDst) = 2 * Len(pcmSrc)
         /\ \A k \in 0..(Len(pcmSrc) - 1) :
              pcmDst[2 * k + 1] = pcmSrc[k + 1] /\ pcmDst[2 * k + 2] = pcmSrc[k + 1]

AtBound(src) == {i \in 1..Len(src) : src[i] \in {-32768, 32767}}

\* C13 as stated: the clipping ratio is 0 for a buffer whose samples are all
\* zero and 1 for a non-empty buffer whose samples are all -32768 or 32767.
C13_AsStated ==
  clipState = "done" =>
    /\ (\A i \in 1..Len(clipSrc) : clipSrc[i] = 0) => IsNumber(audioClipRatio, 0)
    /\ (clipSrc # <<>> /\ AtBound(clipSrc) = 1..Len(clipSrc)) => IsNumber(audioClipRatio, 1)

\* C13: for a non-empty buffer the clipping ratio is the number of samples equal
\* to -32768 or 32767 divided by the buffer length, so 0 when every sample is
\* zero and 1 when every sample is at a bound; for an empty buffer it is NaN.
C13_ClipRatio ==
  clipState = "done" =>
    /\ clipSrc # <<>> =>
         /\ audioClipRatio = [num |-> Cardinality(AtBound(clipSrc)), den |-> Len(clipSrc)]
         /\ (\A i \in 1..Len(clipSrc) : clipSrc[i] = 0) => IsNumber(audioClipRatio, 0)
         /\ AtBound(clipSrc) = 1..Len(clipSrc) => IsNumber(audioClipRatio, 1)
    /\ clipSrc = <<>> => IsNaN(audioClipRatio)

C13_Witness ==
  /\ clipState = "done"
  /\ clipSrc = <<32767, 0, -32768>>
  /\ audioClipRatio = [num |-> 2, den |-> 3]

AllLinesZero(f) == \A l \in 1..2 : \A y \in 1..PpmHeight : f.lines[l][y].type = 0

\* C14: in format A, decoding a keyframe without translation whose line types
\* are all zero in both layers yields two all-zero layer buffers whatever the
\* layer and previous-frame buffers held before, and getFramePixels for that
\* frame returns a buffer in which every pixel is the paper palette index.
C14_BlankKeyframe ==
  (pixState = "done" /\ pixFrame.isNewFrame = 1 /\ AllLinesZero(pixFrame)) =>
    /\ pixLayers = <<BlankBitmap, BlankBitmap>>
    /\ \A pixel \in 1..(PpmWidth * PpmHeight) : image[pixel] = pixPalette[1]

C14_Witness ==
  /\ pixState = "done"
  /\ pixFrame.isNewFrame = 1
  /\ AllLinesZero(pixFrame)
  /\ pixBefore.layerBuffers[1] = Bitmap("full")
  /\ pixBefore.prevLayerBuffers[1] = Bitmap("diag")
  /\ pixPalette = <<1, 0, 2>>
  /\ image = [pixel \in 1..(PpmWidth * PpmHeight) |-> 1]

OffsetInBuffer == 0 <= streamPointer /\ streamPointer <= streamLength

\* the reads, failed or not, never take the offset out of the buffer
ReadsKeepOffset ==
  [][(StreamRead \/ StreamReadBytes) /\ OffsetInBuffer => OffsetInBuffer']_vars

\* C15: after any sequence of seeks (Begin, Current or End) and typed reads,
\* whether they succeed or fail, the offset satisfies 0 <= offset <= buffer
\* length.
C15_OffsetInBuffer == OffsetInBuffer

\* C16: the layer data handed to a caller by decodeFrame(i) is not changed by
\* any later decodeFrame(j) call on the same decoder: what the caller holds
\* after a call that returned reads the same after every later call.
C16_HandedDataKept ==
  [][(ValidIndex(lastCalls[2]) /\ ~ threw) => Returned' = Returned]_vars

\* the callbacks the last emit invoked on account of its own event type
InvokedFor == {(IF emitted = AnyEvent THEN invoked.any ELSE invoked.own)[k] :
                 k \in 1..Len(IF emitted = AnyEvent THEN invoked.any ELSE invoked.own)}

\* C17: after off(eventType, callback) for a callback registered with
\* on(eventType, callback), every later emit(eventType) no longer invokes that
\* callback and still invokes every other callback registered for that event
\* type, for any interleaving of on, off and emit calls.
C17_OffRemoves ==
  emitted # "none" =>
    /\ removed[emitted] \cap InvokedFor = {}
    /\ registered[emitted] \subseteq InvokedFor

\* the frame index of an entry of visits
VisitIndex(v) == IF format = "PPM" THEN v ELSE v.frameIndex

\* C18: format A decodeFrame(i) decodes frame i-1 before frame i exactly when i
\* is not 0, frame i is not a keyframe and the last decoded frame is not i-1;
\* otherwise it decodes frame i only, so decoding frames in forward order never
\* triggers a recursive decode.
C18_PpmRecursion ==
  [][LET i == lastCalls'[2]
         n == Len(visits')
         recurses == i # 0 /\ isNewFrame(frames, i) = 0 /\ prevDecodedFrame # i - 1
     IN (format = "PPM" /\ ValidIndex(i) /\ ~ threw') =>
          /\ recurses <=> (n >= 2 /\ visits'[n - 1] = i - 1 /\ visits'[n] = i)
          /\ ~ recurses => visits' = <<i>>
          /\ inOrder = i => visits' = <<i>>]_vars

C18_Witness ==
  /\ format = "PPM" /\ ~ threw
  /\ lastCalls = <<0, 2>>
  /\ isNewFrame(frames, 1) = 0 /\ isNewFrame(frames, 2) = 0
  /\ visits = <<1, 2>>

\* the frame whose predecessor was the last frame decoded before the call
CachedPredecessor(j) ==
  (IF format = "PPM" THEN prevDecodedFrame ELSE prevFrameIndex) = j - 1

\* where the claim lets the recursion stop
StopsAsStated(v) ==
  LET j == VisitIndex(v)
  IN IF format = "PPM" THEN j = 0 \/ isNewFrame(frames, j) = 1
     ELSE j = 0 \/ CachedPredecessor(j) \/ v.diffingFlag = 0

\* where the recursion stops
Stops(v) == StopsAsStated(v) \/ CachedPredecessor(VisitIndex(v))

\* the recursion of a call descends by one frame at a time from i and decodes
\* no index twice
Descends(i, log) ==
  /\ Len(log) >= 1 /\ Len(log) <= i + 1
  /\ \A k \in 1..Len(log) : VisitIndex(log[k]) = i - (Len(log) - k)

\* C19 as stated: decodeFrame(i) terminates, its recursion descends strictly,
\* decodes each index at most once, and stops at the nearest keyframe or frame
\* 0 (format A) or at frame 0, a cached predecessor or an empty mask (format B).
C19_AsStated ==
  [][LET i == lastCalls'[2]
     IN (ValidIndex(i) /\ ~ threw') =>
          /\ Descends(i, visits')
          /\ Len(visits') >= 2 => StopsAsStated(visits'[1])
          /\ \A k \in 2..Len(visits') : ~ StopsAsStated(visits'[k])]_vars

\* C19: from any decoder state and for any valid i, decodeFrame(i) terminates:
\* its recursion descends by one index at a time, decodes each index j <= i at
\* most once, and stops at the nearest frame that is frame 0, a keyframe
\* (format A), the successor of the last decoded frame (both formats) or
\* reached with an empty mask (format B).
C19_Terminates ==
  [][LET i == lastCalls'[2]
     IN (ValidIndex(i) /\ ~ threw') =>
          /\ Descends(i, visits')
          /\ Stops(visits'[1])
          /\ \A k \in 2..Len(visits') : ~ Stops(visits'[k])]_vars

C19_Witness ==
  /\ format = "KWZ" /\ ~ threw
  /\ lastCalls[2] = 2
  /\ Len(visits) = 3
  /\ visits[1].frameIndex = 0

\* the mask of the ancestor entry k of a call's log is the incoming mask
\* narrowed when Narrows(j) holds, else the incoming mask, and the recursion
\* went on below it exactly when it narrowed to a non-zero mask
MaskRule(log, k, narrows) ==
  LET v == log[k]
      incoming == log[k + 1].diffingFlag
  IN /\ v.isPrevFrame
     /\ IF narrows
        THEN /\ v.diffingFlag = BitAnd(incoming, 7 - getFrameDiffingFlag(frames, v.frameIndex + 1))
             /\ (k > 1) <=> (v.diffingFlag # 0)
        ELSE v.diffingFlag = incoming /\ k = 1

TopLevel(log, i) == log[Len(log)] = [frameIndex |-> i, diffingFlag |-> 7, isPrevFrame |-> FALSE]

\* C20 as stated: an ancestor request for frame j narrows the incoming mask to
\* mask AND NOT diffFlag(j+1) whenever frame j-1 is not the last decoded frame.
C20_AsStated ==
  [][LET i == lastCalls'[2]
     IN (format = "KWZ" /\ ValidIndex(i) /\ ~ threw') =>
          /\ TopLevel(visits', i)
          /\ \A k \in 1..(Len(visits') - 1) :
               MaskRule(visits', k, prevFrameIndex # visits'[k].frameIndex - 1)]_vars

\* C20: in format B an ancestor request for frame j, j not 0, with frame j-1
\* not the last decoded frame narrows the incoming mask to mask AND NOT
\* diffFlag(j+1), decodes frame j with the narrowed mask and decodes frame j-1
\* (as an ancestor request with the narrowed mask) exactly when it is non-zero;
\* at frame 0 or with frame j-1 cached the incoming mask is used as it is and
\* nothing earlier is decoded; a top-level call starts with 0b111, not narrowed.
C20_MaskNarrowing ==
  [][LET i == lastCalls'[2]
     IN (format = "KWZ" /\ ValidIndex(i) /\ ~ threw') =>
          /\ TopLevel(visits', i)
          /\ \A k \in 1..(Len(visits') - 1) :
               MaskRule(visits', k, prevFrameIndex # visits'[k].frameIndex - 1
                                    /\ visits'[k].frameIndex # 0)]_vars

C20_Witness ==
  /\ format = "KWZ" /\ ~ threw
  /\ Len(visits) = 3
  /\ visits[2].isPrevFrame
  /\ visits[2].diffingFlag \in 1..6
  /\ visits[1] = [frameIndex |-> 0, diffingFlag |-> visits[2].diffingFlag, isPrevFrame |-> TRUE]

\* C21, format A on files that open with a new frame: whenever no call is in
\* progress and the last decoded frame index is i, whether the calls so far
\* returned or failed part-way, the layer buffers hold the complete
\* reconstruction of frame i (what decoding up to i on a fresh decoder gives).
C21_CacheHoldsFrame ==
  (format = "PPM" /\ frames[1].isNewFrame = 1 /\ ValidIndex(prevDecodedFrame)) =>
    LET whole == PpmDecodeFrame(frames, PpmFresh, prevDecodedFrame)
    IN ~ whole.threw /\ layerBuffers = whole.layerBuffers

\* the same where no call failed part-way so far
PpmCacheHoldsFrame ==
  (format = "PPM" /\ frames[1].isNewFrame = 1 /\ ValidIndex(prevDecodedFrame) /\ PpmIntact) =>
    layerBuffers = PpmDecodeFrame(frames, PpmFresh, prevDecodedFrame).layerBuffers

\* the pixels of the tile of a turn still hold what the buffer held before
Untouched(turn) ==
  \A dx \in 0..(TilePx - 1), dy \in 0..(TilePx - 1) :
    tileBuffer[(turn.y + dy) * KwzWidth + turn.x + dx + 1] = Stale

\* C22: a tile code 5 carrying count N causes the next N tile slots in
\* traversal order after the slot that carried the code to be left untouched
\* and to consume no bits (the count continuing across large-tile boundaries of
\* the layer), and decoding resumes with the slot after them; the pending skip
\* count never carries over into the next layer.
C22_SkipTiles ==
  tileLayer >= 1 =>
    /\ \A k \in 1..Len(tileLog) :
         tileLog[k].tileType = 5 =>
           /\ \A m \in (k + 1)..(k + tileLog[k].count) :
                m <= Len(tileLog) =>
                  tileLog[m].skipped /\ tileLog[m].bits = 0 /\ Untouched(tileLog[m])
           /\ k + tileLog[k].count + 1 <= Len(tileLog) =>
                ~ tileLog[k + tileLog[k].count + 1].skipped
    /\ \A m \in 1..Len(tileLog) :
         tileLog[m].skipped =>
           \E k \in 1..(m - 1) : tileLog[k].tileType = 5 /\ m <= k + tileLog[k].count

\* a skip of three slots has crossed from one large tile into the next, after a
\* layer that ended with skips pending
C22_Witness ==
  /\ tileLayer = 2
  /\ tileCodes[1] = <<Tile(5, 0, 0, 0, 31)>>
  /\ \E k \in 1..(Len(tileLog) - 4) :
       /\ tileLog[k].tileType = 5 /\ tileLog[k].count = 3
       /\ tileLog[k + 1].x \div MacroPx # tileLog[k + 3].x \div MacroPx
       /\ tileLog[k + 3].skipped /\ ~ tileLog[k + 4].skipped

\* the place of a tile slot in the stated order: large tiles row by row, the
\* slots of a large tile row by row
Earlier(s, t) ==
  LET key(u) == <<u.y \div MacroPx, u.x \div MacroPx, u.y, u.x>>
      a == key(s)
      b == key(t)
  IN \E i \in 1..4 : a[i] < b[i] /\ \A j \in 1..(i - 1) : a[j] = b[j]

\* C23: for each decoded layer the decoder visits every tile slot of the
\* canvas exactly once, large tile by large tile and in raster order inside
\* each large tile, and every pixel write of every tile type falls inside the
\* layer buffer at the rows and columns of the tile being decoded.
C23_TileOrder ==
  tileLayer >= 1 =>
    /\ Len(tileLog) = TilesAcross * TilesDown
    /\ {<<tileLog[k].x, tileLog[k].y>> : k \in 1..Len(tileLog)}
         = {<<i * TilePx, j * TilePx>> : i \in 0..(TilesAcross - 1), j \in 0..(TilesDown - 1)}
    /\ \A k \in 1..(Len(tileLog) - 1) : Earlier(tileLog[k], tileLog[k + 1])
    /\ \A k \in 1..Len(tileLog) : \A at \in tileLog[k].wrote :
         /\ at >= 0 /\ at < KwzWidth * KwzHeight
         /\ at % KwzWidth \in tileLog[k].x..(tileLog[k].x + TilePx - 1)
         /\ at \div KwzWidth \in tileLog[k].y..(tileLog[k].y + TilePx - 1)

\* a tile of the last column, inside the cut-off large tile, has been drawn
\* line by line
C23_Witness ==
  /\ tileLayer >= 1
  /\ \E k \in 1..Len(tileLog) :
       /\ tileLog[k].x = KwzWidth - TilePx
       /\ tileLog[k].tileType = 4
       /\ Cardinality(tileLog[k].wrote) = TilePx * TilePx

\* the bits the readBits calls of the turns of a log took
RECURSIVE BitsRead(_)
BitsRead(log) == IF log = <<>> THEN 0 ELSE log[1].bits + BitsRead(Tail(log))

\* C26: with the dsiLibraryNote setting enabled, decodeFrame skips the third
\* layer (layer index 2): the buffer of that layer is left as it was and no
\* bits of its data are read.
C26_ThirdLayerSkipped ==
  (tileDsi /\ tileLayer = 3) =>
    /\ BitsRead(tileLog) = 0
    /\ \A p \in DOMAIN tileBuffer : tileBuffer[p] = Stale

\* the same without the setting: the third layer is decoded like the others
ThirdLayerDecoded ==
  tileLayer = 3 => Len(tileLog) = TilesAcross * TilesDown /\ BitsRead(tileLog) > 0

\* layer l is drawn over layer m: lower depth, or the same depth and the lower
\* index (descending depth, ties 2 before 1 before 0, the last on top)
Above(l, m) ==
  \/ kpDepths[l + 1] < kpDepths[m + 1]
  \/ kpDepths[l + 1] = kpDepths[m + 1] /\ l < m

\* the layers of a set with a non-zero value at pixel p
Shown(p, among) == {l \in among : kpLayers[l + 1][p] # 0}

\* the palette index of the top-most of the shown layers, the paper index
\* where there is none
TopMost(p, among) ==
  IF Shown(p, among) = {} THEN kpPalette[1]
  ELSE LET l == CHOOSE t \in Shown(p, among) : \A m \in Shown(p, among) \ {t} : Above(t, m)
       IN kpPalette[2 * l + kpLayers[l + 1][p] + 1]

\* C24: getFramePixels(i) in normal mode gives each pixel the palette index of
\* the top-most layer whose value v there is non-zero, paletteIndices[2*layer
\* + v], the layers ordered by descending depth with ties keeping index 2
\* before 1 before 0 and the last in that order top-most; a pixel that is zero
\* in all three layers gets the paper index.
C24_TopMostLayer ==
  (kpState = "done" /\ ~ kpDsi) =>
    \A p \in 1..(KwzWidth * KwzHeight) : kpImage[p] = TopMost(p, {0, 1, 2})

\* three layers of equal depth, and a pixel that layer 0 leaves to layer 1
\* although layer 2 has a value there too
C24_Witness ==
  /\ kpState = "done" /\ ~ kpDsi
  /\ kpDepths[1] = kpDepths[2] /\ kpDepths[2] = kpDepths[3]
  /\ \E p \in 1..(KwzWidth * KwzHeight) :
       /\ kpLayers[1][p] = 0 /\ kpLayers[2][p] = 1 /\ kpLayers[3][p] = 2
       /\ kpImage[p] = kpPalette[4]

\* the layers that are not the bottom one
UpperLayers == {l \in {0, 1, 2} : \E m \in {0, 1, 2} : Above(l, m)}

\* C25: in gallery-import (dsiLibraryNote) mode getFramePixels returns the
\* paper index for every pixel outside the crop rectangle (columns
\* cropStartX..cropWidth-1, rows cropStartY..cropHeight-1) and inside it
\* composites only the top and the middle layer.
C25_CropRectangle ==
  (kpState = "done" /\ kpDsi) =>
    \A p \in 1..(KwzWidth * KwzHeight) :
      LET x == (p - 1) % KwzWidth
          y == (p - 1) \div KwzWidth
      IN kpImage[p] = IF x \in cropStartX..(cropWidth - 1) /\ y \in cropStartY..(cropHeight - 1)
                      THEN TopMost(p, UpperLayers)
                      ELSE kpPalette[1]

\* what does hold in that mode: the rows of the rectangle are composited from
\* the top and the middle layer in the columns from 0 on, as many as the
\* rectangle is wide, and every other pixel is paper
DsiRowsFromLeftEdge ==
  (kpState = "done" /\ kpDsi) =>
    \A p \in 1..(KwzWidth * KwzHeight) :
      LET x == (p - 1) % KwzWidth
          y == (p - 1) \div KwzWidth
      IN kpImage[p] = IF x \in 0..(cropWidth - cropStartX - 1) /\ y \in cropStartY..(cropHeight - 1)
                      THEN TopMost(p, UpperLayers)
                      ELSE kpPalette[1]

\* the decoder state the merge of frame i starts from: that of the caller, or
\* what decoding frame i - 1 first has left
BeforeMerge(i) ==
  IF PpmNeedsPrev(frames, prevDecodedFrame, i)
  THEN PpmDecodeFrame(frames, PpmState, i - 1)
  ELSE PpmState

\* C27: for a format A frame that is not a keyframe, with translation (tx, ty),
\* after decodeFrame each pixel (x, y) of each layer equals its newly decoded
\* bit XOR the previous-frame pixel at (x - tx, y - ty) when that position lies
\* on the canvas, and the newly decoded bit alone otherwise; afterwards the
\* previous-frame buffers equal the layer buffers.
C27_TranslatedXor ==
  [][LET i == lastCalls'[2]
         frame == frames[i + 1]
         before == BeforeMerge(i)
     IN (format = "PPM" /\ ValidIndex(i) /\ ~ threw' /\ frame.isNewFrame = 0) =>
          /\ \A l \in 1..2, x \in 0..(PpmWidth - 1), y \in 0..(PpmHeight - 1) :
               LET sx == x - frame.translateX
                   sy == y - frame.translateY
                   bit == frame.decoded[l][y * PpmWidth + x + 1]
               IN layerBuffers'[l][y * PpmWidth + x + 1] =
                    IF sx \in 0..(PpmWidth - 1) /\ sy \in 0..(PpmHeight - 1)
                    THEN IF bit = before.prevLayerBuffers[l][sy * PpmWidth + sx + 1] THEN 0 ELSE 1
                    ELSE bit
          /\ prevLayerBuffers' = layerBuffers']_vars

\* a frame moved left and down has been merged with its predecessor, which
\* changed some of its pixels
C27_Witness ==
  /\ format = "PPM" /\ ~ threw
  /\ ValidIndex(lastCalls[2])
  /\ prevDecodedFrame = lastCalls[2]
  /\ frames[lastCalls[2] + 1].isNewFrame = 0
  /\ frames[lastCalls[2] + 1].translateX < 0 /\ frames[lastCalls[2] + 1].translateY > 0
  /\ ~ frames[lastCalls[2] + 1].truncated
  /\ layerBuffers # frames[lastCalls[2] + 1].decoded
  /\ prevLayerBuffers = layerBuffers

\* the entries of the framerate table
TableEntries == {PPM_FRAMERATES[k] : k \in 1..Len(PPM_FRAMERATES)}

\* C29: for every value 0..255 of the two raw speed bytes of the format A
\* sound header, construction either fails or leaves frameSpeed and bgmSpeed
\* both in 0..8, so that framerate and bgmrate are entries of the framerate
\* table.
C29_SpeedsInTable ==
  soundState = "done" =>
    /\ frameSpeed \in 0..8 /\ bgmSpeed \in 0..8
    /\ framerate \in TableEntries /\ bgmrate \in TableEntries

\* what does hold: the speed bytes never make the construction fail, and the
\* speeds are 8 minus the bytes
SpeedsNeverRejected ==
  /\ soundState = "failed" => ~ soundPtrInside
  /\ soundState = "done" => frameSpeed = 8 - rawSpeeds[1] /\ bgmSpeed = 8 - rawSpeeds[2]

\* the triggers of the note in the order of the frames, the tracks of a frame
\* in their own order, from position j on (frame j \div tracks, track j % tracks)
RECURSIVE Triggers(_)
Triggers(j) ==
  LET tracks == Len(masterNote.se)
      frame == j \div tracks
      t == (j % tracks) + 1
  IN IF frame >= masterNote.frameCount THEN <<>>
     ELSE (IF masterNote.se[t] # NoTrack /\ masterNote.seFlags[frame + 1][t] # 0
           THEN <<[src |-> masterNote.se[t],
                   at |-> Ceil(FlMul(FlDiv(masterFreq, masterNote.framerate), frame))]>>
           ELSE <<>>)
          \o Triggers(j + 1)

\* the clips mixed into the master: the background music at 0, then the
\* triggers
Mixed ==
  (IF masterNote.bgm # NoTrack THEN <<[src |-> masterNote.bgm, at |-> 0]>> ELSE <<>>)
  \o Triggers(0)

\* sample k (from 0) of the master after the first n of the clips
RECURSIVE MasterSample(_, _)
MasterSample(k, n) ==
  IF n = 0 THEN 0
  ELSE LET m == Mixed[n]
           before == MasterSample(k, n - 1)
       IN IF k - m.at >= 0 /\ k - m.at < Len(m.src)
          THEN IF masterNote.kind = "PPM"
               THEN PpmMixSample(before, m.src[k - m.at + 1])
               ELSE KwzMixSample(before, m.src[k - m.at + 1])
          ELSE before

\* C28: getAudioMasterPcm returns a buffer of exactly ceil(duration * dstFreq)
\* samples in which, for every present sound effect track and every frame
\* whose flag for that track is set, the whole clip is mixed in from sample
\* ceil(frameIndex * samplesPerFrame) on, the clips overlapping and
\* accumulating; the samples of a clip at or past the end of the master are
\* dropped and the length of the master does not change.
C28_MasterMix ==
  masterState = "done" =>
    /\ Len(masterPcm) = Ceil(Fl([num |-> masterNote.duration.num * masterFreq,
                                 den |-> masterNote.duration.den]))
    /\ \A k \in 0..(Len(masterPcm) - 1) : masterPcm[k + 1] = MasterSample(k, Len(Mixed))

\* three frames at 1.5 samples a frame: the clip of the first track, triggered
\* by the second and the third frame, overlaps itself and loses its last sample
\* at the end of the master
C28_Witness ==
  /\ masterState = "done"
  /\ masterNote.kind = "KWZ" /\ masterNote.frameCount = 3 /\ masterNote.bgm = NoTrack
  /\ masterNote.se[1] = <<1000, 1000, 1000>> /\ masterNote.se[2] = NoTrack
  /\ masterNote.seFlags = <<[t \in 1..4 |-> 0], [t \in 1..4 |-> 1], [t \in 1..4 |-> 1]>>
  /\ masterPcm = <<0, 0, 1000, 2000, 2000>>

\* the bits of the codes of a sequence together
RECURSIVE WidthSum(_)
WidthSum(codes) == IF codes = <<>> THEN 0 ELSE codes[1].width + WidthSum(Tail(codes))

\* C30: in the format B ADPCM decoder every input byte is consumed as a
\* sequence of 2-bit and 4-bit codes whose widths sum to exactly 8 (a 4-bit
\* code only where the step index is at least 18 and at most 4 bits of the byte
\* are consumed already), so each byte yields between 2 and 4 samples and no
\* code spans two bytes.
C30_CodesFillByte ==
  (adpcmKind = "kwz" /\ output.count > 0) =>
    /\ \A k \in 1..Len(byteCodes) :
         /\ byteCodes[k].width \in {2, 4}
         /\ byteCodes[k].width = 4 => byteCodes[k].stepIndex >= 18 /\ byteCodes[k].currBit <= 4
         /\ byteCodes[k].currBit = WidthSum(SubSeq(byteCodes, 1, k - 1))
         /\ byteCodes[k].currBit + byteCodes[k].width <= 8
    /\ currBit = WidthSum(byteCodes)
    /\ currBit \in {2, 4, 6, 8}
    /\ currBit = 8 => Len(byteCodes) \in 2..4

\* a byte has been consumed as a 2-bit, a 4-bit and a 2-bit code: the step
\* index reached 18 inside the byte, and the 4-bit code left 2 bits
C30_Witness ==
  /\ adpcmKind = "kwz"
  /\ currBit = 8
  /\ Len(byteCodes) = 3
  /\ byteCodes[1].width = 2 /\ byteCodes[2].width = 4 /\ byteCodes[3].width = 2

=============================================================================
